---- MODULE Spec2Model ----
(***************************************************************************)
(* A model of html_linter.py (deezer/html-linter): the HTML5Linter token   *)
(* handlers, the position resolver get_line_column, the attribute          *)
(* sub-resolution and the indentation tracker.                             *)
(*                                                                         *)
(* Text is a sequence of one-character strings.  Python's None is the      *)
(* one-element sequence None (no character of the alphabet is "<None>"),   *)
(* and a missing position is the empty tuple.                              *)
(***************************************************************************)
EXTENDS Integers, Sequences, FiniteSets, TLC

VARIABLES
  lineno,               \* HTMLParser.lineno: line of the token being handled
  offset,               \* HTMLParser.offset: 0-based column of that token
  starttag_text,        \* HTMLParser.__starttag_text (get_starttag_text())
  cdata_elem,           \* HTMLParser.cdata_elem: "script" or "style" while
                        \* their content is read, None otherwise
  _messages,            \* HTML5Linter._messages
  _last_data,           \* HTML5Linter._last_data
  _last_data_position,  \* HTML5Linter._last_data_position
  _last_indent,         \* HTML5Linter._last_indent
  _first_meta_line_col, \* HTML5Linter._first_meta_line_col
  _after_head_line_col, \* HTML5Linter._after_head_line_col
  _has_charset,         \* HTML5Linter._has_charset
  _endtag_text,         \* HTML5Linter._endtag_text
  pc,                   \* where the run is: "feed", "endhalf", "closed",
                        \* "returned", "raised" (or "call"/"done" for the
                        \* specifications of the pure functions)
  exc,                  \* the exception that ended the run, "" if none
  trace,                \* history: the token events handled so far
  emitted,              \* history: the messages in the order of their append
  input,                \* the arguments of a pure-function call
  output                \* its result

vars == <<lineno, offset, starttag_text, cdata_elem, _messages, _last_data,
          _last_data_position, _last_indent, _first_meta_line_col,
          _after_head_line_col, _has_charset, _endtag_text, pc, exc, trace,
          emitted, input, output>>

linter_vars == <<_messages, _last_data, _last_data_position, _last_indent,
                 _first_meta_line_col, _after_head_line_col, _has_charset,
                 _endtag_text>>

-----------------------------------------------------------------------------
(* Characters and strings *)

None == <<"<None>">>
NonePos == <<>>

LF == "\n"
CR == "\r"
FF == "\f"
TAB == "\t"
SP == " "
DQ == "\""
SQ == "'"

\* str.splitlines() breaks a unicode string after "\n", "\r", "\r\n" and also
\* after "\v", "\f", "\x1c".."\x1e", "\x85", U+2028, U+2029; of these the
\* alphabet of the model has "\n", "\r" and "\f".
LineBoundaries == {LF, CR, FF}

\* \s of the re module and the characters str.strip() removes
Whitespace == {SP, TAB, LF, CR, FF}

LowerChars == <<"a","b","c","d","e","f","g","h","i","j","k","l","m",
                "n","o","p","q","r","s","t","u","v","w","x","y","z">>
UpperChars == <<"A","B","C","D","E","F","G","H","I","J","K","L","M",
                "N","O","P","Q","R","S","T","U","V","W","X","Y","Z">>
Digits == {"0","1","2","3","4","5","6","7","8","9"}
LowerSet == {LowerChars[i] : i \in 1..26}
UpperSet == {UpperChars[i] : i \in 1..26}
Letters == LowerSet \cup UpperSet
\* \w of the re module
WordChars == Letters \cup Digits \cup {"_"}

LowerChar(c) ==
  IF c \in UpperSet
    THEN LowerChars[CHOOSE i \in 1..26 : UpperChars[i] = c]
    ELSE c

\* str.lower()
lower(s) == [i \in 1..Len(s) |-> LowerChar(s[i])]

\* s[i] of Python for the 0-based index i, "" outside the string
At0(s, i) == IF 0 <= i /\ i < Len(s) THEN s[i + 1] ELSE ""

\* s[i:j] of Python for 0 <= i, written with 0-based i and exclusive j
Slice(s, i, j) ==
  LET hi == IF j > Len(s) THEN Len(s) ELSE j
  IN IF i >= hi THEN <<>> ELSE SubSeq(s, i + 1, hi)

\* s.startswith(p)
startswith(s, p) == Len(s) >= Len(p) /\ SubSeq(s, 1, Len(p)) = p

\* s.endswith(p)
endswith(s, p) ==
  Len(s) >= Len(p) /\ SubSeq(s, Len(s) - Len(p) + 1, Len(s)) = p

\* the 0-based index one past the longest run of characters of `set` that
\* starts at the 0-based index i (a greedy [set]* of the re module)
SkipWhile(s, i, set) ==
  IF i >= Len(s) THEN i
  ELSE CHOOSE j \in i..Len(s) :
         /\ j = Len(s) \/ s[j + 1] \notin set
         /\ \A k \in (i + 1)..j : s[k] \in set

\* the same for the characters outside `set` (a greedy [^set]*)
SkipUntil(s, i, set) ==
  IF i >= Len(s) THEN i
  ELSE CHOOSE j \in i..Len(s) :
         /\ j = Len(s) \/ s[j + 1] \in set
         /\ \A k \in (i + 1)..j : s[k] \notin set

\* str.lstrip(), str.rstrip() and str.strip()
lstrip(s) == SubSeq(s, SkipWhile(s, 0, Whitespace) + 1, Len(s))

rstrip(s) ==
  SubSeq(s, 1, CHOOSE n \in 0..Len(s) :
                 /\ n = 0 \/ s[n] \notin Whitespace
                 /\ \A k \in (n + 1)..Len(s) : s[k] \in Whitespace)

strip(s) == rstrip(lstrip(s))

\* s.find(c, i): the first 0-based index >= i of character c, -1 if none
find(s, c, i) ==
  IF \E j \in (i + 1)..Len(s) : s[j] = c
    THEN (CHOOSE j \in (i + 1)..Len(s) :
            s[j] = c /\ \A k \in (i + 1)..(j - 1) : s[k] # c) - 1
    ELSE -1

\* s.count(c)
count(s, c) == Cardinality({i \in 1..Len(s) : s[i] = c})

\* s.rindex(c) for a string that holds c, 0-based
rindex(s, c) ==
  (CHOOSE j \in 1..Len(s) :
     s[j] = c /\ \A k \in (j + 1)..Len(s) : s[k] # c) - 1

\* str.splitlines() from the 0-based index i, the start of a line: the lines
\* without their terminators; "\r\n" is one terminator and a final
\* terminator opens no further line
RECURSIVE SplitLinesFrom(_, _)
SplitLinesFrom(s, i) ==
  LET \* e is the index of the terminator of the line, Len(s) if it has none
      AfterTerminator(e) ==
        IF At0(s, e) = CR /\ At0(s, e + 1) = LF THEN e + 2 ELSE e + 1
      Line(e) ==
        <<SubSeq(s, i + 1, e)>>
          \o (IF e >= Len(s) THEN <<>>
              ELSE SplitLinesFrom(s, AfterTerminator(e)))
  IN IF i >= Len(s) THEN <<>> ELSE Line(SkipUntil(s, i, LineBoundaries))

splitlines(s) == SplitLinesFrom(s, 0)

\* c in '\n\r' for a one-character string c
InNR(c) == c \in {LF, CR}

-----------------------------------------------------------------------------
(* The position resolver *)

get_line_column(data, line, column, position) ==
  LET \* "if not tokens or data[-1] in '\n\r': tokens.append('')"
      Tokens(d, toks) ==
        IF toks = <<>> \/ InNR(d[Len(d)]) THEN Append(toks, <<>>) ELSE toks
      LineColumn(toks) ==
        IF Len(toks) > 1
          THEN <<line + Len(toks) - 1, 1 + Len(toks[Len(toks)])>>
          ELSE <<line, column + position>>
      Of(d) == LineColumn(Tokens(d, splitlines(d)))
  IN Of(Slice(data, 0, position))

-----------------------------------------------------------------------------
(* The patterns of the HTMLParser module the linter scans with.  Indexes   *)
(* are 0-based as in Python; At(s, i) is s[i], "" outside the string.      *)

At(s, i) == At0(s, i)

NoMatch == [ok |-> FALSE, s1 |-> 0, e1 |-> 0, has2 |-> FALSE,
            s3 |-> 0, e3 |-> 0, end |-> 0]

\* (?:\s|/(?!>))* from i: the index after the run
InTrail(s, k) ==
  At(s, k) \in Whitespace \/ (At(s, k) = "/" /\ At(s, k + 1) # ">")

SkipTrail(s, i) ==
  IF i >= Len(s) THEN i
  ELSE CHOOSE j \in i..Len(s) :
         /\ j = Len(s) \/ ~InTrail(s, j)
         /\ \A k \in i..(j - 1) : InTrail(s, k)

\* ('[^']*'|"[^"]*"|(?!['"])[^>\s]*) at q: <<start, end>>, <<>> if no match
AttrValueAt(s, q) ==
  IF At(s, q) \in {SQ, DQ}
    THEN LET Closed(c) == IF c >= 0 THEN <<q, c + 1>> ELSE <<>>
         IN Closed(find(s, At(s, q), q + 1))
    ELSE <<q, SkipUntil(s, q, Whitespace \cup {">"})>>

\* (\s*=+\s*(value))? after the attribute name that ends at e1: the span of
\* the value, <<>> if the group does not take part.  \s* and =+ are greedy
\* and give characters back when the value is an unclosed quote.
AttrRestAt(s, e1) ==
  LET \* p1, p2, p3: the ends of \s*, of =+ and of the second \s*; v the
      \* value at p3
      Value(p1, p2, p3, v) ==
        IF p2 = p1 THEN <<>>
        ELSE IF v # <<>> THEN v
        ELSE IF p3 > p2 THEN <<p3 - 1, p3 - 1>>
        ELSE IF p2 - p1 >= 2 THEN AttrValueAt(s, p2 - 1)
        ELSE <<>>
      AfterSpaces(p1, p2, p3) == Value(p1, p2, p3, AttrValueAt(s, p3))
      AfterEquals(p1, p2) == AfterSpaces(p1, p2, SkipWhile(s, p2, Whitespace))
      AfterName(p1) == AfterEquals(p1, SkipWhile(s, p1, {"="}))
  IN AfterName(SkipWhile(s, e1, Whitespace))

\* the lookbehind and the first character of an attribute name:
\*   (?<=['"\s/])[^\s/>]
AttrStartsAt(s, i) ==
  /\ i >= 1 /\ i < Len(s)
  /\ At(s, i - 1) \in Whitespace \cup {SQ, DQ, "/"}
  /\ At(s, i) \notin Whitespace \cup {"/", ">"}

\* attrfind.match(s, i):
\*   ((?<=['"\s/])[^\s/>][^\s/=>]*)(\s*=+\s*(value))?(?:\s|/(?!>))*
\* group 1 is [s1, e1), group 3 is [s3, e3) when has2
AttrMatchAt(s, i) ==
  IF AttrStartsAt(s, i)
    THEN LET Groups(e1, v) ==
               IF v = <<>>
                 THEN [ok |-> TRUE, s1 |-> i, e1 |-> e1, has2 |-> FALSE,
                       s3 |-> e1, e3 |-> e1, end |-> SkipTrail(s, e1)]
                 ELSE [ok |-> TRUE, s1 |-> i, e1 |-> e1, has2 |-> TRUE,
                       s3 |-> v[1], e3 |-> v[2], end |-> SkipTrail(s, v[2])]
             Named(e1) == Groups(e1, AttrRestAt(s, e1))
         IN Named(SkipUntil(s, i + 1, Whitespace \cup {"/", "=", ">"}))
    ELSE NoMatch

\* the least element of a nonempty set of integers
Minimum(S) == CHOOSE x \in S : \A y \in S : x <= y

\* attrfind.finditer(s, i): the matches from left to right, none overlapping
RECURSIVE attrfind_finditer(_, _)
attrfind_finditer(s, i) ==
  LET Matches(m) == <<m>> \o attrfind_finditer(s, m.end)
      From(starts) ==
        IF starts = {} THEN <<>>
        ELSE Matches(AttrMatchAt(s, Minimum(starts)))
  IN From({j \in i..(Len(s) - 1) : AttrStartsAt(s, j)})

\* match.group(1) and match.group(3); group 3 is None when the attribute has
\* no "=value" part
group1(s, m) == Slice(s, m.s1, m.e1)
group3(s, m) == IF m.has2 THEN Slice(s, m.s3, m.e3) ELSE None

\* "not match.group(3)": the group took no part or is the empty string
NoGroup3(s, m) == ~m.has2 \/ m.s3 = m.e3


-----------------------------------------------------------------------------
(* The tokenizer (HTMLParser) as far as the handlers see it *)

\* the characters [^\t\n\r\f />\x00] of tagfind ends a tag name at
TagNameStop == {TAB, LF, CR, FF, SP, "/", ">"}

\* dict(attrs): a list of <<name, value>> pairs, one per name, in the order
\* of the first occurrence and with the value of the last one
RECURSIVE DictKeys(_, _)
DictKeys(l, seen) ==
  IF l = <<>> THEN <<>>
  ELSE IF l[1][1] \in seen THEN DictKeys(Tail(l), seen)
  ELSE <<l[1][1]>> \o DictKeys(Tail(l), seen \cup {l[1][1]})

RECURSIVE LastValue(_, _, _)
LastValue(l, k, default) ==
  IF l = <<>> THEN default
  ELSE IF l[Len(l)][1] = k THEN l[Len(l)][2]
  ELSE LastValue(SubSeq(l, 1, Len(l) - 1), k, default)

dict(l) ==
  LET Items(keys) ==
        [i \in 1..Len(keys) |-> <<keys[i], LastValue(l, keys[i], None)>>]
  IN Items(DictKeys(l, {}))

\* "k in attrs" and attrs.get(k, default) / attrs[k]
Has(attrs, k) == \E i \in 1..Len(attrs) : attrs[i][1] = k
Get(attrs, k, default) == LastValue(attrs, k, default)

\* HTMLParser.unescape of an attribute value: the references of the table,
\* which are the ones the documents of the specifications below hold, are
\* replaced by their character; the text around them is kept
EntityTable ==
  <<  <<<<"a","m","p">>, "&">>, <<<<"l","t">>, "<">>, <<<<"g","t">>, ">">>,
      <<<<"q","u","o","t">>, DQ>>, <<<<"a","a","c","u","t","e">>, "U+00E1">>,
      <<<<"#","3","2">>, SP>>, <<<<"#","6","5">>, "A">>, <<<<"#","x","4","1">>, "A">>  >>

RECURSIVE unescape(_)
unescape(s) ==
  LET \* amp is the index of the first "&", semi of the first ";" after it
      Hit(amp, semi) ==
        {i \in 1..Len(EntityTable) :
           EntityTable[i][1] = Slice(s, amp + 1, semi)}
      Replaced(amp, semi, hit) ==
        IF semi > 0 /\ hit # {}
          THEN Slice(s, 0, amp) \o <<EntityTable[Minimum(hit)][2]>>
                 \o unescape(Slice(s, semi + 1, Len(s)))
          ELSE Slice(s, 0, amp + 1) \o unescape(Slice(s, amp + 1, Len(s)))
      Reference(amp, semi) == Replaced(amp, semi, Hit(amp, semi))
      From(amp) == IF amp < 0 THEN s ELSE Reference(amp, find(s, ";", amp + 1))
  IN From(find(s, "&", 0))

\* the value parse_starttag hands over for one match of attrfind: None
\* without "=value", else the value without its pair of quotes, unescaped
AttrValue(raw, m) ==
  LET Unquoted(v) ==
        IF Len(v) >= 1 /\ v[1] \in {SQ, DQ} /\ v[Len(v)] = v[1]
          THEN Slice(v, 1, Len(v) - 1) ELSE v
  IN IF ~m.has2 THEN None ELSE unescape(Unquoted(Slice(raw, m.s3, m.e3)))

\* the loop of parse_starttag: attrfind.match at k, again at the end of each
\* match, until it fails; <<the pairs, the index the loop stopped at>>
RECURSIVE ParseAttrs(_, _, _)
ParseAttrs(raw, k, acc) ==
  LET Step(m) ==
        IF k < Len(raw) /\ m.ok
          THEN ParseAttrs(raw, m.end,
                          Append(acc, <<lower(group1(raw, m)),
                                        AttrValue(raw, m)>>))
          ELSE <<acc, k>>
  IN Step(AttrMatchAt(raw, k))

\* HTMLParser.parse_starttag on the raw text of one whole start tag: the
\* lowercased tag name, the attribute pairs, whether what follows the last
\* attribute is ">" or "/>" (junk otherwise) and whether it is "/>"
parse_starttag(raw) ==
  LET \* te the end of the tag name, pa the result of the loop, end the
      \* stripped text after the last attribute
      Token(te, pa, end) ==
        [tag |-> lower(Slice(raw, 1, te)),
         attrs |-> pa[1],
         junk |-> end \notin {<<">">>, <<"/",">">>},
         selfclosing |-> endswith(end, <<"/",">">>)]
      AfterAttrs(te, pa) == Token(te, pa, strip(Slice(raw, pa[2], Len(raw))))
      AfterName(te) == AfterAttrs(te, ParseAttrs(raw, SkipTrail(raw, te), <<>>))
  IN AfterName(SkipUntil(raw, 1, TagNameStop))

\* the characters [-.a-zA-Z0-9:_] of endtagfind
EndTagNameChars == Letters \cup Digits \cup {"-", ".", ":", "_"}

\* endtagfind.match(raw): </\s*([a-zA-Z][-.a-zA-Z0-9:_]*)\s*>
endtagfind_match(raw) ==
  LET Groups(s1, e1, gt) ==
        IF /\ startswith(raw, <<"<","/">>)
           /\ At(raw, s1) \in Letters
           /\ At(raw, gt) = ">"
          THEN [ok |-> TRUE, s1 |-> s1, e1 |-> e1, end |-> gt + 1]
          ELSE [ok |-> FALSE, s1 |-> 0, e1 |-> 0, end |-> 0]
      Name(s1, e1) == Groups(s1, e1, SkipWhile(raw, e1, Whitespace))
      Spaces(s1) == Name(s1, SkipWhile(raw, s1, EndTagNameChars))
  IN Spaces(SkipWhile(raw, 2, Whitespace))

\* the tag name HTMLParser.parse_endtag hands to handle_endtag: group 1 of
\* endtagfind, or the name tagfind reads after "</" when endtagfind fails
endtag_name(raw) ==
  LET Name(match) ==
        IF match.ok THEN lower(Slice(raw, match.s1, match.e1))
        ELSE lower(Slice(raw, 2, SkipUntil(raw, 2, TagNameStop)))
  IN Name(endtagfind_match(raw))

\* HTMLParser.updatepos over the raw text of the token just handled: only
\* "\n" starts a new line for the parser
updatepos(line, off, raw) ==
  IF count(raw, LF) > 0
    THEN <<line + count(raw, LF), Len(raw) - (rindex(raw, LF) + 1)>>
    ELSE <<line, off + Len(raw)>>

-----------------------------------------------------------------------------
(* Constants of the linter *)

VOID_TAGS ==
  {<<"b","r">>, <<"h","r">>, <<"i","m","g">>, <<"i","n","p","u","t">>, <<"l","i","n","k">>, <<"m","e","t","a">>, <<"a","r","e","a">>,
   <<"b","a","s","e">>, <<"c","o","l">>, <<"c","o","m","m","a","n","d">>, <<"e","m","b","e","d">>, <<"k","e","y","g","e","n">>, <<"p","a","r","a","m">>,
   <<"s","o","u","r","c","e">>, <<"t","r","a","c","k">>, <<"w","b","r">>}
OPTIONAL_CLOSING_TAGS ==
  {<<"h","t","m","l">>, <<"h","e","a","d">>, <<"b","o","d","y">>, <<"p">>, <<"d","t">>, <<"d","d">>, <<"l","i">>, <<"o","p","t","i","o","n">>,
   <<"t","h","e","a","d">>, <<"t","h">>, <<"t","b","o","d","y">>, <<"t","r">>, <<"t","d">>, <<"t","f","o","o","t">>, <<"c","o","l","g","r","o","u","p">>}
OPTIONAL_OPENING_TAGS == {<<"b","o","d","y">>, <<"h","e","a","d">>, <<"h","t","m","l">>, <<"t","b","o","d","y">>}
VALID_ENTITIES ==
  {<<"l","t">>, <<"g","t">>, <<"a","m","p">>, <<"q","u","o","t">>, <<"n","b","s","p">>, <<"e","n","s","p">>, <<"e","m","s","p">>,
   <<"t","h","i","n","s","p">>}
VALID_HTTP_EQUIV ==
  {<<"r","e","f","r","e","s","h">>, <<"d","e","f","a","u","l","t","-","s","t","y","l","e">>, <<"x","-","u","a","-","c","o","m","p","a","t","i","b","l","e">>, <<>>}
BLOCK_TAGS ==
  {<<"a","d","d","r","e","s","s">>, <<"a","r","t","i","c","l","e">>, <<"a","s","i","d","e">>, <<"a","u","d","i","o">>, <<"b","l","o","c","k","q","u","o","t","e">>,
   <<"c","a","n","v","a","s">>, <<"d","d">>, <<"d","i","v">>, <<"d","l">>, <<"f","i","e","l","d","s","e","t">>, <<"f","i","g","c","a","p","t","i","o","n">>,
   <<"f","i","g","u","r","e">>, <<"f","o","o","t","e","r">>, <<"f","o","r","m">>, <<"h","1">>, <<"h","2">>, <<"h","3">>, <<"h","4">>,
   <<"h","5">>, <<"h","6">>, <<"h","e","a","d","e","r">>, <<"h","g","r","o","u","p">>, <<"h","r">>, <<"n","o","s","c","r","i","p","t">>, <<"o","l">>,
   <<"o","u","t","p","u","t">>, <<"p">>, <<"p","r","e">>, <<"s","e","c","t","i","o","n">>, <<"t","a","b","l","e">>, <<"t","f","o","o","t">>, <<"u","l">>,
   <<"v","i","d","e","o">>}
LIST_TAGS == {<<"o","l">>, <<"u","l">>, <<"l","i">>, <<"d","l">>, <<"d","t">>, <<"d","d">>}
TABLE_TAGS ==
  {<<"t","a","b","l","e">>, <<"c","a","p","t","i","o","n">>, <<"c","o","l","g","r","o","u","p">>, <<"c","o","l">>, <<"t","b","o","d","y">>, <<"t","h","e","a","d">>,
   <<"t","f","o","o","t">>, <<"t","r">>, <<"t","d">>, <<"t","h">>}
NEWLINE_TAGS == BLOCK_TAGS \cup LIST_TAGS \cup TABLE_TAGS
BOOLEAN_ATTRIBUTES ==
  {<<"a","l","l","o","w","f","u","l","l","s","c","r","e","e","n">>, <<"a","s","y","n","c">>, <<"a","u","t","o","f","o","c","u","s">>, <<"a","u","t","o","p","l","a","y">>, <<"c","h","e","c","k","e","d">>,
   <<"c","o","m","p","a","c","t">>, <<"c","o","n","t","r","o","l","s">>, <<"d","e","c","l","a","r","e">>, <<"d","e","f","a","u","l","t">>, <<"d","e","f","a","u","l","t","c","h","e","c","k","e","d">>,
   <<"d","e","f","a","u","l","t","m","u","t","e","d">>, <<"d","e","f","a","u","l","t","s","e","l","e","c","t","e","d">>, <<"d","e","f","e","r">>, <<"d","i","s","a","b","l","e","d">>,
   <<"d","r","a","g","g","a","b","l","e">>, <<"e","n","a","b","l","e","d">>, <<"f","o","r","m","n","o","v","a","l","i","d","a","t","e">>, <<"h","i","d","d","e","n">>,
   <<"i","n","d","e","t","e","r","m","i","n","a","t","e">>, <<"i","n","e","r","t">>, <<"i","s","m","a","p">>, <<"i","t","e","m","s","c","o","p","e">>, <<"l","o","o","p">>,
   <<"m","u","l","t","i","p","l","e">>, <<"m","u","t","e","d">>, <<"n","o","h","r","e","f">>, <<"n","o","r","e","s","i","z","e">>, <<"n","o","s","h","a","d","e">>,
   <<"n","o","v","a","l","i","d","a","t","e">>, <<"n","o","w","r","a","p">>, <<"o","p","e","n">>, <<"p","a","u","s","e","o","n","e","x","i","t">>, <<"r","e","a","d","o","n","l","y">>,
   <<"r","e","q","u","i","r","e","d">>, <<"r","e","v","e","r","s","e","d">>, <<"s","c","o","p","e","d">>, <<"s","e","a","m","l","e","s","s">>, <<"s","e","l","e","c","t","e","d">>,
   <<"s","o","r","t","a","b","l","e">>, <<"s","p","e","l","l","c","h","e","c","k">>, <<"t","r","a","n","s","l","a","t","e">>, <<"t","r","u","e","s","p","e","e","d">>,
   <<"t","y","p","e","m","u","s","t","m","a","t","c","h">>, <<"v","i","s","i","b","l","e">>}

-----------------------------------------------------------------------------
(* Messages.  A message is its class, its position and the arguments of    *)
(* its constructor: strs the string arguments, nums the numeric ones.      *)

Message(cls, pos, strs, nums) ==
  [cls |-> cls, line |-> pos[1], column |-> pos[2], strs |-> strs,
   nums |-> nums]

\* The handlers run their rules one after the other on an accumulator:
\* m the messages appended so far, x the exception raised ("" if none).
\* A rule leaves an accumulator that has raised as it is: the statements
\* after the one that raised are not run.
Raise(acc, e) == IF acc.x # "" THEN acc ELSE [acc EXCEPT !.x = e]

\* self._messages.append(...)
Emit(acc, cls, pos, strs, nums) ==
  IF acc.x # "" THEN acc
  ELSE [acc EXCEPT !.m = Append(@, Message(cls, pos, strs, nums))]

\* the result of a position lookup whose "assert False" was reached
AssertFailed == <<>>

\* "line, column = self.get_..._line_column(name)" followed by an append:
\* the lookup raises AssertionError in place of returning a position
EmitAt(acc, cls, pos, strs, nums) ==
  IF pos = AssertFailed THEN Raise(acc, "AssertionError")
  ELSE Emit(acc, cls, pos, strs, nums)

-----------------------------------------------------------------------------
(* Attribute sub-resolution *)

\* the first match of attrfind.finditer(tag_definition) whose lowercased
\* name is the attribute, NoMatch if there is none
RECURSIVE FirstNamed(_, _, _)
FirstNamed(s, ms, attribute) ==
  IF ms = <<>> THEN NoMatch
  ELSE IF lower(group1(s, ms[1])) = attribute THEN ms[1]
  ELSE FirstNamed(s, Tail(ms), attribute)

get_attribute_line_column(tag_definition, line, column, attribute) ==
  LET Position(match) ==
        IF match.ok
          THEN get_line_column(tag_definition, line, column, match.s1)
          ELSE AssertFailed
  IN Position(FirstNamed(tag_definition,
                         attrfind_finditer(tag_definition, 0), attribute))

get_value_line_column(tag_definition, line, column, attribute) ==
  LET ValueStart(match) ==
        IF NoGroup3(tag_definition, match) THEN match.e1
        ELSE IF At(tag_definition, match.s3) \in {DQ, SQ}
          THEN match.s3 + 1
        ELSE match.s3
      Position(match) ==
        IF match.ok
          THEN get_line_column(tag_definition, line, column,
                               ValueStart(match))
          ELSE AssertFailed
  IN Position(FirstNamed(tag_definition,
                         attrfind_finditer(tag_definition, 0), attribute))

-----------------------------------------------------------------------------
(* The indentation tracker *)

\* the result of _get_indentation when the indentation is unknown (Python's
\* None); a known indentation n is the one-element tuple <<n>>
Unknown == <<>>

ExpandTabs(s) ==
  LET RECURSIVE go(_)
      go(t) == IF t = <<>> THEN <<>>
               ELSE (IF t[1] = TAB THEN <<SP, SP>> ELSE <<t[1]>>)
                      \o go(Tail(t))
  IN go(s)

\* HTML5Linter._get_indentation: the candidate indentation from the last
\* data and the position it started at
_get_indentation(last_data, last_data_position) ==
  IF last_data = None THEN Unknown
  ELSE LET Tokens(toks) ==
             IF toks = <<>> \/ InNR(last_data[Len(last_data)])
               THEN Append(toks, <<>>) ELSE toks
           Indent(toks, potential_indent) ==
             IF Len(toks) = 1 /\ last_data_position[2] # 1 THEN Unknown
             ELSE IF \A i \in 1..Len(potential_indent) :
                       potential_indent[i] = SP
               THEN <<Len(potential_indent)>>
             ELSE Unknown
           Of(toks) == Indent(toks, ExpandTabs(toks[Len(toks)]))
       IN Of(Tokens(splitlines(last_data)))

-----------------------------------------------------------------------------
(* The rules of handle_starttag.  Each takes the accumulator and what the  *)
(* handler sees: text = get_starttag_text(), the tag, attrs = dict(attrs)  *)
(* and pos = <<getline(), getcolumn()>>.                                   *)

attr_pos(text, pos, attribute) ==
  get_attribute_line_column(text, pos[1], pos[2], attribute)
value_pos(text, pos, attribute) ==
  get_value_line_column(text, pos[1], pos[2], attribute)

\* re.match(r'^(http[s]?:)', url): the protocol, <<>> if there is none
ProtocolOf(url) ==
  IF startswith(url, <<"h","t","t","p","s",":">>) THEN <<"h","t","t","p","s",":">>
  ELSE IF startswith(url, <<"h","t","t","p",":">>) THEN <<"h","t","t","p",":">>
  ELSE <<>>

\* re.match(r'^[chars]*$', name): "$" also matches before a final "\n"
MatchesAll(name, chars) ==
  LET All(body) == \A i \in 1..Len(body) : body[i] \in chars
  IN All(IF name # <<>> /\ name[Len(name)] = LF
           THEN SubSeq(name, 1, Len(name) - 1) ELSE name)

IdChars == LowerSet \cup Digits \cup {"-"}
ClassChars == IdChars \cup {SP}

\* VOID_ZERO_PATTERN.match(s):
\*   ^javascript:\s*void\s*\(\s*0\s*\)\s*;?$   (IGNORECASE)
VoidZeroMatch(s) ==
  LET \* the token tok at i and the whitespace after it: the index after
      \* them, -1 if the token is not there
      Token(t, i, tok) ==
        IF i >= 0 /\ Slice(t, i, i + Len(tok)) = tok
          THEN SkipWhile(t, i + Len(tok), Whitespace) ELSE -1
      Semicolon(t, i) == IF At(t, i) = ";" THEN i + 1 ELSE i
      AtEnd(t, f) == f = Len(t) \/ (f = Len(t) - 1 /\ At(t, f) = LF)
      Closed(t, e) == e >= 0 /\ AtEnd(t, Semicolon(t, e))
      Matches(t) ==
        Closed(t, Token(t, Token(t, Token(t, Token(t,
                 Token(t, 0, <<"j","a","v","a","s","c","r","i","p","t",":">>), <<"v","o","i","d">>), <<"(">>), <<"0">>),
                 <<")">>))
  IN Matches(lower(s))

_handle_head_starttag(text, pos) ==
  get_line_column(text, pos[1], pos[2], Len(text))

\* the messages and the exception of _handle_meta_starttag; what it stores
\* in _first_meta_line_col and _has_charset is in handle_starttag below
_handle_meta_starttag(acc, text, attrs, pos) ==
  LET HttpEquiv(a, http_equiv) ==
        IF http_equiv = None THEN Raise(a, "AttributeError")
        ELSE IF lower(http_equiv) \notin VALID_HTTP_EQUIV
          THEN EmitAt(a, "HTTPEquivMessage",
                      attr_pos(text, pos, <<"h","t","t","p","-","e","q","u","i","v">>),
                      <<http_equiv>>, <<>>)
        ELSE a
      Charset(a) ==
        IF Has(attrs, <<"c","h","a","r","s","e","t">>)
           /\ Get(attrs, <<"c","h","a","r","s","e","t">>, None) # <<"u","t","f","-","8">>
          THEN EmitAt(a, "CharsetMessage", value_pos(text, pos, <<"c","h","a","r","s","e","t">>),
                      <<Get(attrs, <<"c","h","a","r","s","e","t">>, None)>>, <<>>)
          ELSE a
  IN Charset(HttpEquiv(acc, Get(attrs, <<"h","t","t","p","-","e","q","u","i","v">>, <<>>)))

_handle_link_starttag(acc, text, attrs, pos) ==
  IF Get(attrs, <<"t","y","p","e">>, None) = <<"t","e","x","t","/","c","s","s">>
    THEN EmitAt(acc, "TypeAttributeMessage", attr_pos(text, pos, <<"t","y","p","e">>),
                <<<<"l","i","n","k">>>>, <<>>)
    ELSE acc

_handle_script_starttag(acc, text, attrs, pos) ==
  LET Type(a) ==
        IF Get(attrs, <<"t","y","p","e">>, None) = <<"t","e","x","t","/","j","a","v","a","s","c","r","i","p","t">>
          THEN EmitAt(a, "TypeAttributeMessage",
                      attr_pos(text, pos, <<"t","y","p","e">>), <<<<"s","c","r","i","p","t">>>>, <<>>)
          ELSE a
      Inline(a) ==
        IF ~Has(attrs, <<"s","r","c">>)
          THEN Emit(a, "ConcernsSeparationMessage", pos,
                    <<<<"s","c","r","i","p","t">>, None>>, <<>>)
          ELSE a
      Charset(a) ==
        IF ~Has(attrs, <<"s","r","c">>) /\ Has(attrs, <<"c","h","a","r","s","e","t">>)
          THEN EmitAt(a, "InvalidAttributeMessage",
                      attr_pos(text, pos, <<"c","h","a","r","s","e","t">>),
                      <<<<"c","h","a","r","s","e","t">>>>, <<>>)
          ELSE a
      Language(a) ==
        IF Has(attrs, <<"l","a","n","g","u","a","g","e">>)
          THEN EmitAt(a, "InvalidAttributeMessage",
                      attr_pos(text, pos, <<"l","a","n","g","u","a","g","e">>),
                      <<<<"l","a","n","g","u","a","g","e">>>>, <<>>)
          ELSE a
  IN Language(Charset(Inline(Type(acc))))

_handle_style_starttag(acc, text, attrs, pos) ==
  LET Type(a) ==
        IF Get(attrs, <<"t","y","p","e">>, None) = <<"t","e","x","t","/","c","s","s">>
          THEN EmitAt(a, "TypeAttributeMessage",
                      attr_pos(text, pos, <<"t","y","p","e">>), <<<<"s","t","y","l","e">>>>, <<>>)
          ELSE a
  IN Type(Emit(acc, "ConcernsSeparationMessage", pos,
               <<<<"s","t","y","l","e">>, None>>, <<>>))

_handle_a_starttag(acc, text, attrs, pos) ==
  LET Href(a, href) ==
        IF href = None THEN Raise(a, "AttributeError")
        ELSE IF VoidZeroMatch(href)
          THEN EmitAt(a, "VoidZeroMessage",
                      value_pos(text, pos, <<"h","r","e","f">>), <<>>, <<>>)
        ELSE IF startswith(lower(href), <<"j","a","v","a","s","c","r","i","p","t",":">>)
          THEN EmitAt(a, "ConcernsSeparationMessage",
                      value_pos(text, pos, <<"h","r","e","f">>),
                      <<<<"a">>, <<"h","r","e","f">>>>, <<>>)
        ELSE a
      \* attrs.get('href', '').strip(): None has no strip
      Stripped(href) == IF href = None THEN None ELSE strip(href)
      Name(a) ==
        IF Has(attrs, <<"n","a","m","e">>)
          THEN EmitAt(a, "InvalidAttributeMessage",
                      attr_pos(text, pos, <<"n","a","m","e">>), <<<<"n","a","m","e">>>>, <<>>)
          ELSE a
  IN Name(Href(acc, Stripped(Get(attrs, <<"h","r","e","f">>, <<>>))))

\* getattr(self, '_handle_%s_starttag' % tag, None) and its call
TagHook(acc, text, tag, attrs, pos) ==
  IF acc.x # "" THEN acc ELSE
  CASE tag = <<"m","e","t","a">> -> _handle_meta_starttag(acc, text, attrs, pos)
    [] tag = <<"l","i","n","k">> -> _handle_link_starttag(acc, text, attrs, pos)
    [] tag = <<"s","c","r","i","p","t">> -> _handle_script_starttag(acc, text, attrs, pos)
    [] tag = <<"s","t","y","l","e">> -> _handle_style_starttag(acc, text, attrs, pos)
    [] tag = <<"a">> -> _handle_a_starttag(acc, text, attrs, pos)
    [] OTHER -> acc

_handle_style_attribute(acc, text, tag, attrs, pos) ==
  IF acc.x # "" THEN acc ELSE
  IF Has(attrs, <<"s","t","y","l","e">>)
    THEN EmitAt(acc, "ConcernsSeparationMessage",
                attr_pos(text, pos, <<"s","t","y","l","e">>), <<tag, <<"s","t","y","l","e">>>>, <<>>)
    ELSE acc

\* the body of the loop of _handle_on_attributes for one attribute
OnAttribute(acc, text, tag, attrs, pos, attr) ==
  IF acc.x # "" THEN acc ELSE
  IF ~startswith(lower(attr), <<"o","n">>) THEN acc
  ELSE LET Handler(a, value) ==
             IF value = None THEN Raise(a, "AttributeError")
             ELSE IF startswith(lower(strip(value)), <<"j","a","v","a","s","c","r","i","p","t",":">>)
               THEN EmitAt(a, "InvalidHandlerMessage",
                           value_pos(text, pos, attr), <<attr>>, <<>>)
             ELSE a
       IN Handler(EmitAt(acc, "ConcernsSeparationMessage",
                         attr_pos(text, pos, attr), <<tag, attr>>, <<>>),
                  Get(attrs, attr, None))

RECURSIVE OnAttributesFrom(_, _, _, _, _, _)
OnAttributesFrom(acc, text, tag, attrs, pos, i) ==
  IF acc.x # "" THEN acc ELSE
  IF i > Len(attrs) THEN acc
  ELSE OnAttributesFrom(OnAttribute(acc, text, tag, attrs, pos, attrs[i][1]),
                        text, tag, attrs, pos, i + 1)

_handle_on_attributes(acc, text, tag, attrs, pos) ==
  IF acc.x # "" THEN acc ELSE
  OnAttributesFrom(acc, text, tag, attrs, pos, 1)

_handle_href_src_attributes(acc, text, attrs, pos) ==
  IF acc.x # "" THEN acc ELSE
  LET Protocol(attr, url) ==
        IF url = None THEN Raise(acc, "TypeError")
        ELSE IF ProtocolOf(url) = <<>> THEN acc
        ELSE EmitAt(acc, "ProtocolMessage", value_pos(text, pos, attr),
                    <<ProtocolOf(url)>>, <<>>)
      \* url = attrs.get(attr, '')
      Url(attr) ==
        Protocol(attr, IF attr = None THEN <<>> ELSE Get(attrs, attr, <<>>))
  IN Url(IF Has(attrs, <<"s","r","c">>) THEN <<"s","r","c">>
         ELSE IF Has(attrs, <<"h","r","e","f">>) THEN <<"h","r","e","f">>
         ELSE None)

_handle_id_attribute(acc, text, attrs, pos) ==
  IF acc.x # "" THEN acc ELSE
  LET Id(name) ==
        IF name = None THEN Raise(acc, "TypeError")
        ELSE IF ~MatchesAll(name, IdChars)
          THEN EmitAt(acc, "NameMessage", value_pos(text, pos, <<"i","d">>),
                      <<<<"i","d">>, name>>, <<>>)
        ELSE acc
  IN Id(Get(attrs, <<"i","d">>, <<>>))

_handle_class_attribute(acc, text, attrs, pos) ==
  IF acc.x # "" THEN acc ELSE
  LET Class(name) ==
        IF name = None THEN Raise(acc, "TypeError")
        ELSE IF ~MatchesAll(name, ClassChars)
          THEN EmitAt(acc, "NameMessage", value_pos(text, pos, <<"c","l","a","s","s">>),
                      <<<<"c","l","a","s","s">>, name>>, <<>>)
        ELSE acc
  IN Class(Get(attrs, <<"c","l","a","s","s">>, <<>>))

_check_optional_opening_tag(acc, tag, attrs, pos) ==
  IF acc.x # "" THEN acc ELSE
  IF tag \in OPTIONAL_OPENING_TAGS /\ attrs = <<>>
    THEN Emit(acc, "OptionalTagMessage", pos, <<tag>>, <<1>>)
    ELSE acc

_check_starttag_capitalization(acc, text, tag, pos) ==
  IF acc.x # "" THEN acc ELSE
  LET Capitalization(original_tag) ==
        IF original_tag # lower(original_tag)
          THEN Emit(acc, "CapitalizationMessage", <<pos[1], pos[2] + 1>>,
                    <<original_tag, None>>, <<0>>)
          ELSE acc
  IN Capitalization(Slice(text, 1, Len(tag) + 1))

HexChars == Digits \cup {"a","b","c","d","e","f","A","B","C","D","E","F"}
EntityNameChars == Letters \cup Digits \cup {"-", "."}

\* entityref.match(s, i): &([a-zA-Z][-.a-zA-Z0-9]*)[^a-zA-Z0-9] with the name
\* at its longest; <<end of the name>>, <<>> if no match.  (A match that has
\* to shorten the name ends in "-" or ".", never in ";", and is skipped by
\* the caller: it is left out.)
EntityRefAt(s, i) ==
  LET Match(e) ==
        IF At(s, i) = "&" /\ At(s, i + 1) \in Letters /\ e < Len(s)
          THEN <<e>> ELSE <<>>
  IN Match(SkipWhile(s, i + 1, EntityNameChars))

\* charref.match(s, i): &#(?:[0-9]+|[xX][0-9a-fA-F]+)[^0-9a-fA-F];
\* <<end of the digits>>, <<>> if no match
CharRefAt(s, i) ==
  LET Match(d, h) ==
        IF At(s, i) # "&" \/ At(s, i + 1) # "#" THEN <<>>
        ELSE IF d > i + 2 /\ d < Len(s) /\ At(s, d) \notin HexChars
          THEN <<d>>
        ELSE IF At(s, i + 2) \in {"x", "X"} /\ h > i + 3 /\ h < Len(s)
          THEN <<h>>
        ELSE <<>>
  IN Match(SkipWhile(s, i + 2, Digits), SkipWhile(s, i + 3, HexChars))

\* "self.line, self.offset = get_line_column(...); self.offset -= 1" and
\* the position the handler then reads: the assignment to self.line leaves
\* the line of the parser (lineno) as it is, getcolumn() is offset + 1
SetLineOffset(text, pos, position) ==
  <<pos[1], (get_line_column(text, pos[1], pos[2], position)[2] - 1) + 1>>

\* the loop over entityref.finditer(match.group(3)): v is group 3, base its
\* start in the tag text
RECURSIVE EntityRefsFrom(_, _, _, _, _, _)
EntityRefsFrom(acc, text, pos, v, base, i) ==
  IF acc.x # "" THEN acc ELSE
  LET \* handle_entityref(name) at the position set in self.line/offset
      Reference(e) ==
        IF At(v, e) = ";" /\ Slice(v, i + 1, e) \notin VALID_ENTITIES
          THEN Emit(acc, "EntityReferenceMessage",
                    SetLineOffset(text, pos, i + base),
                    <<Slice(v, i, e + 1)>>, <<>>)
          ELSE acc
      Step(m) ==
        IF m = <<>> THEN EntityRefsFrom(acc, text, pos, v, base, i + 1)
        ELSE EntityRefsFrom(Reference(m[1]), text, pos, v, base, m[1] + 1)
      \* amp is the next "&" from i on, -1 if there is none
      Next(amp) ==
        IF amp < 0 THEN acc
        ELSE IF amp = i THEN Step(EntityRefAt(v, i))
        ELSE EntityRefsFrom(acc, text, pos, v, base, amp)
  IN Next(find(v, "&", i))

\* the loop over charref.finditer(match.group(3))
RECURSIVE CharRefsFrom(_, _, _, _, _, _)
CharRefsFrom(acc, text, pos, v, base, i) ==
  IF acc.x # "" THEN acc ELSE
  LET \* handle_charref(group(0)[2:-1])
      Reference(e) ==
        IF At(v, e) = ";"
          THEN Emit(acc, "EntityReferenceMessage",
                    SetLineOffset(text, pos, i + base),
                    <<Slice(v, i, e + 1)>>, <<>>)
          ELSE acc
      Step(m) ==
        IF m = <<>> THEN CharRefsFrom(acc, text, pos, v, base, i + 1)
        ELSE CharRefsFrom(Reference(m[1]), text, pos, v, base, m[1] + 1)
      Next(amp) ==
        IF amp < 0 THEN acc
        ELSE IF amp = i THEN Step(CharRefAt(v, i))
        ELSE CharRefsFrom(acc, text, pos, v, base, amp)
  IN Next(find(v, "&", i))

\* the body of the loop of _check_attributes_case_quotation_entities for
\* one match of attrfind
AttributeCaseQuotationEntities(acc, text, tag, pos, match) ==
  IF acc.x # "" THEN acc ELSE
  LET Capitalization(a, name) ==
        IF name # lower(name)
          THEN EmitAt(a, "CapitalizationMessage",
                      attr_pos(text, pos, lower(name)), <<tag, name>>, <<0>>)
          ELSE a
      Quotation(a, v) ==
        IF At(v, 0) # DQ
          THEN Emit(a, "QuotationMessage",
                    get_line_column(text, pos[1], pos[2], match.s3),
                    <<IF At(v, 0) = SQ THEN <<SQ>> ELSE <<>> >>, <<>>)
          ELSE a
      \* "if not match.group(3): continue", then the value is looked at
      Value(a, v) ==
        IF NoGroup3(text, match) THEN a
        ELSE CharRefsFrom(
               EntityRefsFrom(Quotation(a, v), text, pos, v, match.s3, 0),
               text, pos, v, match.s3, 0)
  IN Value(Capitalization(acc, group1(text, match)),
           Slice(text, match.s3, match.e3))

RECURSIVE AttributesCaseFrom(_, _, _, _, _)
AttributesCaseFrom(acc, text, tag, pos, ms) ==
  IF acc.x # "" THEN acc ELSE
  IF ms = <<>> THEN acc
  ELSE AttributesCaseFrom(
         AttributeCaseQuotationEntities(acc, text, tag, pos, ms[1]),
         text, tag, pos, Tail(ms))

_check_attributes_case_quotation_entities(acc, text, tag, pos) ==
  IF acc.x # "" THEN acc ELSE
  AttributesCaseFrom(acc, text, tag, pos,
                     attrfind_finditer(text, Len(tag) + 1))

RECURSIVE BooleanAttributesFrom(_, _, _, _, _)
BooleanAttributesFrom(acc, text, attrs, pos, i) ==
  IF acc.x # "" THEN acc ELSE
  IF i > Len(attrs) THEN acc
  ELSE BooleanAttributesFrom(
         IF attrs[i][1] \in BOOLEAN_ATTRIBUTES /\ attrs[i][2] # None
           THEN EmitAt(acc, "BooleanAttributeMessage",
                       attr_pos(text, pos, attrs[i][1]),
                       <<attrs[i][1], attrs[i][2]>>, <<>>)
           ELSE acc,
         text, attrs, pos, i + 1)

_check_boolean_attributes(acc, text, attrs, pos) ==
  IF acc.x # "" THEN acc ELSE
  BooleanAttributesFrom(acc, text, attrs, pos, 1)

_check_tags_in_newline(acc, tag, pos, last_data, last_data_position) ==
  IF acc.x # "" THEN acc ELSE
  IF tag \in NEWLINE_TAGS
     /\ _get_indentation(last_data, last_data_position) = Unknown
    THEN Emit(acc, "FormattingMessage", pos, <<tag>>, <<>>)
    ELSE acc

\* range(last_indent + 2, -1, -2)
ValidIndents(last_indent) ==
  {n \in 0..(last_indent + 2) : (last_indent + 2 - n) % 2 = 0}

\* _check_indentation without the two statements "indentation += 1" and
\* "indentation -= 1"
NormalizedIndentNotRounded(indentation, last_indent) ==
  IF indentation > last_indent + 2 THEN last_indent + 2 ELSE indentation

\* the value _check_indentation stores in _last_indent for a known
\* indentation
NormalizedIndent(indentation, last_indent) ==
  IF indentation \in ValidIndents(last_indent) THEN indentation
  ELSE IF indentation > last_indent + 2 THEN last_indent + 2
  ELSE IF indentation > last_indent THEN indentation + 1
  ELSE indentation - 1

\* HTML5Linter._check_indentation: the messages; what it stores in
\* _last_indent and _last_data is IndentAfter and DataAfter
_check_indentation(acc, line, last_data, last_data_position, last_indent) ==
  IF acc.x # "" THEN acc ELSE
  LET Check(indentation) ==
        IF indentation = Unknown THEN acc
        ELSE IF indentation[1] \notin ValidIndents(last_indent)
          THEN Emit(acc, "IndentationMessage", <<line, 1>>, <<>>,
                    <<indentation[1], 0, last_indent + 2>>)
        ELSE acc
  IN Check(_get_indentation(last_data, last_data_position))

\* _check_indentation storing 0 in _last_indent when the indentation is
\* unknown
IndentAfterResetWhenUnknown(last_data, last_data_position, last_indent) ==
  LET After(indentation) ==
        IF indentation = Unknown THEN 0
        ELSE NormalizedIndent(indentation[1], last_indent)
  IN After(_get_indentation(last_data, last_data_position))

IndentAfter(last_data, last_data_position, last_indent) ==
  LET After(indentation) ==
        IF indentation = Unknown THEN last_indent
        ELSE NormalizedIndent(indentation[1], last_indent)
  IN After(_get_indentation(last_data, last_data_position))

\* _check_indentation without the statement "self._last_data = None"
DataKept(last_data, last_data_position) == last_data

\* _check_indentation with "self._last_data = ''" as its last statement
DataEmptied(last_data, last_data_position) ==
  IF _get_indentation(last_data, last_data_position) = Unknown
    THEN last_data ELSE <<>>

DataAfter(last_data, last_data_position) ==
  IF _get_indentation(last_data, last_data_position) = Unknown
    THEN last_data ELSE None

\* tag_pattern.match(s) of _check_whitespaces:
\*   </?(?P<start>\s*)\w+(.*?)(\s*/|(?P<end>\s*))>      (DOTALL)
\* group 2 is lazy: it ends at the first index p from which \s*/?> matches
TagEndAt(s, p) ==
  LET End(q) ==
        IF At(s, q) = "/" /\ At(s, q + 1) = ">" THEN <<p, p>>
        ELSE IF At(s, q) = ">" THEN <<p, q>>
        ELSE <<>>
  IN End(SkipWhile(s, p, Whitespace))

TagPatternTail(s, p) ==
  LET First(ends) ==
        IF ends = {} THEN <<>> ELSE TagEndAt(s, Minimum(ends))
  IN First({q \in p..Len(s) : TagEndAt(s, q) # <<>>})

\* [ok, the span of "start", the start of group 2, the span of "end"]
tag_pattern_match(s) ==
  LET Groups(a, b, c, t) ==
        IF At(s, 0) = "<" /\ c > b /\ t # <<>>
          THEN [ok |-> TRUE, start |-> <<a, b>>, s2 |-> c, end |-> t]
          ELSE [ok |-> FALSE, start |-> <<0, 0>>, s2 |-> 0,
                end |-> <<0, 0>>]
      Name(a, b, c) == Groups(a, b, c, TagPatternTail(s, c))
      Start(a, b) == Name(a, b, SkipWhile(s, b, WordChars))
      Open(a) == Start(a, SkipWhile(s, a, Whitespace))
  IN Open(IF At(s, 1) = "/" THEN 2 ELSE 1)

\* attribute_pattern.match(s, i) of _check_whitespaces:
\*   ([\n\r]\s*|\s)(?P<before_attr>\s*)\w+
\*       ((?P<after_attr>\s*)=(?P<before_value>\s*))?
\* the spans of the three named groups and the end of the match
attribute_pattern_at(s, i) ==
  LET \* j the end of the whitespace before the name, k the end of the
      \* name, k2 and k3 the ends of the whitespace around "="
      Before(j) == IF At(s, i) \in {LF, CR} THEN <<j, j>> ELSE <<i + 1, j>>
      Groups(j, k, k2, k3) ==
        IF At(s, i) \notin Whitespace \/ k = j
          THEN [ok |-> FALSE, groups |-> <<>>, end |-> 0]
        ELSE IF At(s, k2) = "="
          THEN [ok |-> TRUE,
                groups |-> <<Before(j), <<k, k2>>, <<k2 + 1, k3>> >>,
                end |-> k3]
        ELSE [ok |-> TRUE, groups |-> <<Before(j)>>, end |-> k]
      AfterAttr(j, k, k2) ==
        Groups(j, k, k2, SkipWhile(s, k2 + 1, Whitespace))
      Attr(j, k) == AfterAttr(j, k, SkipWhile(s, k, Whitespace))
      BeforeAttr(j) == Attr(j, SkipWhile(s, j, WordChars))
  IN BeforeAttr(SkipWhile(s, i, Whitespace))

\* one ExtraWhitespaceMessage for every group of the list that is not empty
RECURSIVE WhitespaceGroups(_, _, _, _)
WhitespaceGroups(acc, s, pos, groups) ==
  IF acc.x # "" THEN acc ELSE
  IF groups = <<>> THEN acc
  ELSE WhitespaceGroups(
         IF groups[1][2] > groups[1][1]
           THEN Emit(acc, "ExtraWhitespaceMessage",
                     get_line_column(s, pos[1], pos[2], groups[1][1]),
                     <<>>, <<>>)
           ELSE acc,
         s, pos, Tail(groups))

\* the loop over attribute_pattern.finditer(original_def, match.start(2))
RECURSIVE WhitespaceAttributesFrom(_, _, _, _)
WhitespaceAttributesFrom(acc, s, pos, i) ==
  IF acc.x # "" THEN acc ELSE
  IF i >= Len(s) THEN acc
  ELSE LET Step(m) ==
             IF m.ok
               THEN WhitespaceAttributesFrom(
                      WhitespaceGroups(acc, s, pos, m.groups), s, pos, m.end)
               ELSE WhitespaceAttributesFrom(acc, s, pos, i + 1)
       IN IF At(s, i) \in Whitespace THEN Step(attribute_pattern_at(s, i))
          ELSE WhitespaceAttributesFrom(acc, s, pos,
                                        SkipUntil(s, i, Whitespace))

\* HTML5Linter._check_whitespaces on original_def, the text of the start
\* tag (opening) or of the end tag
_check_whitespaces(acc, original_def, pos) ==
  IF acc.x # "" THEN acc ELSE
  LET Check(match) ==
        IF ~match.ok THEN Raise(acc, "AssertionError")
        ELSE WhitespaceAttributesFrom(
               WhitespaceGroups(acc, original_def, pos,
                                <<match.start, match.end>>),
               original_def, pos, match.s2)
  IN IF original_def = None THEN acc
     ELSE Check(tag_pattern_match(original_def))

-----------------------------------------------------------------------------
(* The handlers.  Each gives the linter's state after the handler: m the   *)
(* messages, x the exception it raised ("" if it returned), and the        *)
(* attributes it assigns.                                                  *)

\* TRAILING_WHITESPACE_PATTERN.finditer(data), ([\t ]+)[\r\n]: one
\* TrailingWhitespaceMessage per match
RECURSIVE TrailingWhitespaceFrom(_, _, _, _)
TrailingWhitespaceFrom(acc, data, pos, i) ==
  IF acc.x # "" THEN acc ELSE
  LET Step(j) ==
        IF i >= Len(data) THEN acc
        ELSE IF j = i
          THEN TrailingWhitespaceFrom(acc, data, pos,
                                      SkipUntil(data, i, {TAB, SP}))
        ELSE IF At(data, j) \in {CR, LF}
          THEN TrailingWhitespaceFrom(
                 Emit(acc, "TrailingWhitespaceMessage",
                      get_line_column(data, pos[1], pos[2], i),
                      <<Slice(data, i, j)>>, <<>>),
                 data, pos, j + 1)
        ELSE TrailingWhitespaceFrom(acc, data, pos, j)
  IN Step(SkipWhile(data, i, {TAB, SP}))

\* TAB_PATTERN.finditer(data), \t+: one TabMessage per match
RECURSIVE TabsFrom(_, _, _, _)
TabsFrom(acc, data, pos, i) ==
  IF acc.x # "" THEN acc ELSE
  LET Step(j) ==
        IF i >= Len(data) THEN acc
        ELSE IF j = i
          THEN TabsFrom(acc, data, pos, SkipUntil(data, i, {TAB}))
        ELSE TabsFrom(Emit(acc, "TabMessage",
                           get_line_column(data, pos[1], pos[2], i),
                           <<>>, <<>>),
                      data, pos, j)
  IN Step(SkipWhile(data, i, {TAB}))

\* st is the linter's state before the handler, a record of its attributes
\* and of x; Acc(st) is the accumulator the rules start from
Acc(st) == [m |-> st.messages, x |-> ""]

handle_data(st, data, pos) ==
  [st EXCEPT
     !.messages = TabsFrom(TrailingWhitespaceFrom(Acc(st), data, pos, 0),
                           data, pos, 0).m,
     !.last_data = data,
     !.last_data_position = pos]

\* handle_decl comparing the declaration as it is, without decl.strip()
handle_declUntrimmed(st, decl, pos) ==
  IF decl # <<"D","O","C","T","Y","P","E"," ","h","t","m","l">>
    THEN [st EXCEPT !.messages =
            Emit(Acc(st), "DocumentTypeMessage", pos,
                 <<<<"<","!">> \o decl \o <<">">>>>, <<>>).m]
    ELSE st

handle_decl(st, decl, pos) ==
  IF strip(decl) # <<"D","O","C","T","Y","P","E"," ","h","t","m","l">>
    THEN [st EXCEPT !.messages =
            Emit(Acc(st), "DocumentTypeMessage", pos,
                 <<<<"<","!">> \o decl \o <<">">>>>, <<>>).m]
    ELSE st

handle_entityref(st, name, pos) ==
  IF name \notin VALID_ENTITIES
    THEN [st EXCEPT !.messages =
            Emit(Acc(st), "EntityReferenceMessage", pos,
                 <<<<"&">> \o name \o <<";">>>>, <<>>).m]
    ELSE st

handle_charref(st, name, pos) ==
  [st EXCEPT !.messages =
     Emit(Acc(st), "EntityReferenceMessage", pos,
          <<<<"&","#">> \o name \o <<";">>>>, <<>>).m]

\* _handle_meta_starttag reaches "self._has_charset = True" when its
\* http-equiv part did not raise
MetaReachedCharset(text, attrs, pos) ==
  LET Reached(http_equiv) ==
        /\ http_equiv # None
        /\ \/ lower(http_equiv) \in VALID_HTTP_EQUIV
           \/ attr_pos(text, pos, <<"h","t","t","p","-","e","q","u","i","v">>) # AssertFailed
  IN Reached(Get(attrs, <<"h","t","t","p","-","e","q","u","i","v">>, <<>>))

\* the rules of handle_starttag that run before _check_indentation, in the
\* order of the handler
StartTagRules(st, text, tag, attrs, pos) ==
  _check_tags_in_newline(
    _check_boolean_attributes(
      _check_attributes_case_quotation_entities(
        _check_starttag_capitalization(
          _check_optional_opening_tag(
            _handle_class_attribute(
              _handle_id_attribute(
                _handle_href_src_attributes(
                  _handle_on_attributes(
                    _handle_style_attribute(
                      TagHook(Acc(st), text, tag, attrs, pos),
                      text, tag, attrs, pos),
                    text, tag, attrs, pos),
                  text, attrs, pos),
                text, attrs, pos),
              text, attrs, pos),
            tag, attrs, pos),
          text, tag, pos),
        text, tag, pos),
      text, attrs, pos),
    tag, pos, st.last_data, st.last_data_position)

\* handle_starttag without its last statement "self._endtag_text = None"
handle_starttagKeepingEndtagText(st, text, tag, attrs_list, pos) ==
  LET \* a11 is the accumulator when _check_indentation is called, a13 the
      \* one at the end
      Done(attrs, a11, a13) ==
        [st EXCEPT
           !.messages = a13.m,
           !.x = a13.x,
           !.after_head_line_col =
             IF tag = <<"h","e","a","d">> THEN _handle_head_starttag(text, pos) ELSE @,
           !.first_meta_line_col =
             IF tag = <<"m","e","t","a">> /\ @ = NonePos THEN pos ELSE @,
           !.has_charset =
             IF tag = <<"m","e","t","a">> /\ Has(attrs, <<"c","h","a","r","s","e","t">>)
                /\ MetaReachedCharset(text, attrs, pos)
               THEN TRUE ELSE @,
           !.last_indent =
             IF a11.x = ""
               THEN IndentAfter(st.last_data, st.last_data_position, @)
               ELSE @,
           !.last_data =
             IF a11.x = "" THEN DataAfter(@, st.last_data_position) ELSE @,
           !.endtag_text = @]
      Checks(attrs, a11) ==
        Done(attrs, a11,
             _check_whitespaces(
               _check_indentation(a11, pos[1], st.last_data,
                                  st.last_data_position, st.last_indent),
               text, pos))
      Rules(attrs) == Checks(attrs, StartTagRules(st, text, tag, attrs, pos))
  IN Rules(dict(attrs_list))

handle_starttag(st, text, tag, attrs_list, pos) ==
  LET \* a11 is the accumulator when _check_indentation is called, a13 the
      \* one at the end
      Done(attrs, a11, a13) ==
        [st EXCEPT
           !.messages = a13.m,
           !.x = a13.x,
           !.after_head_line_col =
             IF tag = <<"h","e","a","d">> THEN _handle_head_starttag(text, pos) ELSE @,
           !.first_meta_line_col =
             IF tag = <<"m","e","t","a">> /\ @ = NonePos THEN pos ELSE @,
           !.has_charset =
             IF tag = <<"m","e","t","a">> /\ Has(attrs, <<"c","h","a","r","s","e","t">>)
                /\ MetaReachedCharset(text, attrs, pos)
               THEN TRUE ELSE @,
           !.last_indent =
             IF a11.x = ""
               THEN IndentAfter(st.last_data, st.last_data_position, @)
               ELSE @,
           !.last_data =
             IF a11.x = "" THEN DataAfter(@, st.last_data_position) ELSE @,
           \* "self._endtag_text = None", the last statement
           !.endtag_text = IF a13.x = "" THEN None ELSE @]
      Checks(attrs, a11) ==
        Done(attrs, a11,
             _check_whitespaces(
               _check_indentation(a11, pos[1], st.last_data,
                                  st.last_data_position, st.last_indent),
               text, pos))
      Rules(attrs) == Checks(attrs, StartTagRules(st, text, tag, attrs, pos))
  IN Rules(dict(attrs_list))

\* SELF_CLOSING_TAG_PATTERN.search(s), ([\t ]*/)>: the span of group 1 of
\* the leftmost match, <<>> if there is none
SelfClosingAt(s, i) ==
  LET Match(j) ==
        IF At(s, j) = "/" /\ At(s, j + 1) = ">" THEN <<i, j + 1>> ELSE <<>>
  IN Match(SkipWhile(s, i, {TAB, SP}))

SelfClosingSearch(s, i) ==
  LET First(starts) ==
        IF starts = {} THEN <<>> ELSE SelfClosingAt(s, Minimum(starts))
  IN First({j \in i..(Len(s) - 1) : SelfClosingAt(s, j) # <<>>})

_check_endtag_capitalization(acc, endtag, pos) ==
  IF acc.x # "" THEN acc ELSE
  LET Capitalization(match) ==
        Emit(acc, "CapitalizationMessage", <<pos[1], pos[2] + 2>>,
             <<Slice(endtag, match.s1, match.e1), None>>, <<1>>)
  IN IF endtag # None /\ endtag # <<>> /\ endtag # lower(endtag)
       THEN Capitalization(endtagfind_match(endtag))
       ELSE acc

\* the part of handle_endtag after the checks: the void element and the
\* optional closing tag
CloseVoidOrOptional(acc, tag, start_text, pos) ==
  IF acc.x # "" THEN acc ELSE
  LET Void(match) ==
        IF match # <<>>
          THEN Emit(acc, "VoidElementMessage",
                    get_line_column(start_text, pos[1], pos[2], match[1]),
                    <<tag, Slice(start_text, match[1], match[2])>>, <<>>)
          ELSE Emit(acc, "VoidElementMessage", pos, <<tag, None>>, <<>>)
  IN IF tag \in VOID_TAGS
       THEN IF start_text = None THEN Raise(acc, "TypeError")
            ELSE Void(SelfClosingSearch(start_text, 0))
     ELSE IF tag \in OPTIONAL_CLOSING_TAGS
       THEN Emit(acc, "OptionalTagMessage", pos, <<tag>>, <<0>>)
     ELSE acc

handle_endtag(st, tag, start_text, pos) ==
  LET Done(acc) ==
        [st EXCEPT
           !.messages = acc.m,
           !.x = acc.x,
           !.last_indent =
             IndentAfter(st.last_data, st.last_data_position, @),
           !.last_data = DataAfter(@, st.last_data_position)]
  IN Done(CloseVoidOrOptional(
            _check_whitespaces(
              _check_indentation(
                _check_endtag_capitalization(Acc(st), st.endtag_text, pos),
                pos[1], st.last_data, st.last_data_position, st.last_indent),
              st.endtag_text, pos),
            tag, start_text, pos))

\* close with the two positions taken in the other order
close_after_head_first(st) ==
  IF ~st.has_charset
     /\ (st.first_meta_line_col # NonePos \/ st.after_head_line_col # NonePos)
    THEN [st EXCEPT !.messages =
            Emit(Acc(st), "CharsetMessage",
                 IF st.after_head_line_col # NonePos
                   THEN st.after_head_line_col
                   ELSE st.first_meta_line_col,
                 <<None>>, <<>>).m]
    ELSE st

\* HTML5Linter.close
close(st) ==
  IF ~st.has_charset
     /\ (st.first_meta_line_col # NonePos \/ st.after_head_line_col # NonePos)
    THEN [st EXCEPT !.messages =
            Emit(Acc(st), "CharsetMessage",
                 IF st.first_meta_line_col # NonePos
                   THEN st.first_meta_line_col
                   ELSE st.after_head_line_col,
                 <<None>>, <<>>).m]
    ELSE st

\* the comparison of a sort that moves a message before the earlier
\* messages of its own position
KeyLT(a, b) == a.line < b.line \/ (a.line = b.line /\ a.column < b.column)

\* list.sort(key=lambda m: (m.line, m.column)): a stable sort
KeyLE(a, b) == a.line < b.line \/ (a.line = b.line /\ a.column <= b.column)

RECURSIVE InsertByKey(_, _)
InsertByKey(sorted, msg) ==
  IF sorted = <<>> THEN <<msg>>
  ELSE IF KeyLE(sorted[Len(sorted)], msg) THEN Append(sorted, msg)
  ELSE Append(InsertByKey(SubSeq(sorted, 1, Len(sorted) - 1), msg),
              sorted[Len(sorted)])

RECURSIVE SortByLineColumn(_)
SortByLineColumn(l) ==
  IF l = <<>> THEN <<>>
  ELSE InsertByKey(SortByLineColumn(SubSeq(l, 1, Len(l) - 1)), l[Len(l)])

\* the property HTML5Linter.messages
messages(l) == SortByLineColumn(l)

-----------------------------------------------------------------------------
(* The run: HTML5Linter(html) feeds the document to the tokenizer, which   *)
(* calls one handler per token, then close(); the caller reads messages.   *)

LinterState ==
  [messages |-> _messages,
   last_data |-> _last_data,
   last_data_position |-> _last_data_position,
   last_indent |-> _last_indent,
   first_meta_line_col |-> _first_meta_line_col,
   after_head_line_col |-> _after_head_line_col,
   has_charset |-> _has_charset,
   endtag_text |-> _endtag_text,
   x |-> ""]

\* HTML5Linter.__init__ with "self._last_data = None": no text is stored
InitLinterNoText ==
  /\ _messages = <<>>
  /\ _last_data = None
  /\ _last_data_position = <<0, 1>>
  /\ _last_indent = 0
  /\ _first_meta_line_col = NonePos
  /\ _after_head_line_col = NonePos
  /\ _has_charset = FALSE
  /\ _endtag_text = None
  /\ lineno = 1
  /\ offset = 0
  /\ starttag_text = None
  /\ cdata_elem = None
  /\ exc = ""
  /\ trace = <<>>
  /\ emitted = <<>>

\* the state HTML5Linter.__init__ sets before feed()
InitLinter ==
  /\ _messages = <<>>
  /\ _last_data = <<>>
  /\ _last_data_position = <<0, 1>>
  /\ _last_indent = 0
  /\ _first_meta_line_col = NonePos
  /\ _after_head_line_col = NonePos
  /\ _has_charset = FALSE
  /\ _endtag_text = None
  /\ lineno = 1
  /\ offset = 0
  /\ starttag_text = None
  /\ cdata_elem = None
  /\ exc = ""
  /\ trace = <<>>
  /\ emitted = <<>>

\* <<getline(), getcolumn()>>
getpos == <<lineno, offset + 1>>

Event(kind, raw, tag, selfclosed) ==
  [kind |-> kind, raw |-> raw, tag |-> tag, line |-> lineno,
   column |-> offset + 1, selfclosed |-> selfclosed]

\* the handler returned state r: the attributes are stored; an exception
\* ends the run, otherwise the tokenizer goes on at pc_next after the
\* consumed text
Store(r, ev, consumed, pc_next) ==
  /\ _messages' = r.messages
  /\ _last_data' = r.last_data
  /\ _last_data_position' = r.last_data_position
  /\ _last_indent' = r.last_indent
  /\ _first_meta_line_col' = r.first_meta_line_col
  /\ _after_head_line_col' = r.after_head_line_col
  /\ _has_charset' = r.has_charset
  /\ _endtag_text' = r.endtag_text
  /\ exc' = r.x
  /\ emitted' = emitted \o SubSeq(r.messages, Len(_messages) + 1,
                                  Len(r.messages))
  /\ trace' = Append(trace, ev)
  /\ pc' = IF r.x # "" THEN "raised" ELSE pc_next
  /\ lineno' = IF r.x # "" THEN lineno
               ELSE updatepos(lineno, offset, consumed)[1]
  /\ offset' = IF r.x # "" THEN offset
               ELSE updatepos(lineno, offset, consumed)[2]

\* the kind of the last token handled
LastKind == IF trace = <<>> THEN "" ELSE trace[Len(trace)].kind

\* a run of text: the tokenizer hands it over in one call
Text(raw, bound) ==
  /\ pc = "feed" /\ Len(trace) < bound
  /\ LastKind # "data"
  /\ Store(handle_data(LinterState, raw, getpos),
           Event("data", raw, <<>>, FALSE), raw, "feed")
  /\ UNCHANGED <<starttag_text, cdata_elem, input, output>>

\* <!decl>
Decl(raw, bound) ==
  /\ pc = "feed" /\ Len(trace) < bound
  /\ cdata_elem = None
  /\ Store(handle_decl(LinterState, Slice(raw, 2, Len(raw) - 1), getpos),
           Event("decl", raw, <<>>, FALSE), raw, "feed")
  /\ UNCHANGED <<starttag_text, cdata_elem, input, output>>

\* &name; or &name before a character that ends the name: the tokenizer
\* calls handle_entityref(name) in both cases
EntityRef(raw, bound) ==
  /\ pc = "feed" /\ Len(trace) < bound
  /\ cdata_elem = None
  /\ Store(handle_entityref(LinterState,
                            Slice(raw, 1, SkipWhile(raw, 1, EntityNameChars)),
                            getpos),
           Event("entityref", raw, <<>>, FALSE), raw, "feed")
  /\ UNCHANGED <<starttag_text, cdata_elem, input, output>>

\* &#digits; or &#digits before a character that ends the digits
CharRef(raw, bound) ==
  /\ pc = "feed" /\ Len(trace) < bound
  /\ cdata_elem = None
  /\ Store(handle_charref(LinterState,
                          Slice(raw, 2, SkipUntil(raw, 2, {";"})), getpos),
           Event("charref", raw, <<>>, FALSE), raw, "feed")
  /\ UNCHANGED <<starttag_text, cdata_elem, input, output>>

\* <!-- ... -->: handle_comment is not overridden, the position moves on
Comment(raw, bound) ==
  /\ pc = "feed" /\ Len(trace) < bound
  /\ cdata_elem = None
  /\ Store(LinterState, Event("comment", raw, <<>>, FALSE), raw, "feed")
  /\ UNCHANGED <<starttag_text, cdata_elem, input, output>>

\* HTMLParser.CDATA_CONTENT_ELEMENTS
CDATA_CONTENT_ELEMENTS == {<<"s","c","r","i","p","t">>, <<"s","t","y","l","e">>}

\* the cdata_elem parse_starttag leaves for the token tok
set_cdata_mode(tok) ==
  IF ~tok.junk /\ ~tok.selfclosing /\ tok.tag \in CDATA_CONTENT_ELEMENTS
    THEN tok.tag ELSE None

\* a whole start tag: parse_starttag stores its text and calls
\* handle_starttag, or handle_data when junk follows the attributes; for
\* <tag ... /> handle_startendtag goes on with handle_endtag (EndHalf);
\* after <script> and <style> the content is read as text up to "</"
StartTag(raw, bound) ==
  /\ pc = "feed" /\ Len(trace) < bound
  /\ cdata_elem = None
  /\ starttag_text' = raw
  /\ cdata_elem' = set_cdata_mode(parse_starttag(raw))
  /\ LET Handle(tok) ==
           IF tok.junk
             THEN Store(handle_data(LinterState, raw, getpos),
                        Event("junk", raw, <<>>, FALSE), raw, "feed")
             ELSE Store(handle_starttag(LinterState, raw, tok.tag, tok.attrs,
                                        getpos),
                        Event("starttag", raw, tok.tag, tok.selfclosing),
                        IF tok.selfclosing THEN <<>> ELSE raw,
                        IF tok.selfclosing THEN "endhalf" ELSE "feed")
     IN Handle(parse_starttag(raw))
  /\ UNCHANGED <<input, output>>

\* the second half of handle_startendtag
EndHalf ==
  /\ pc = "endhalf"
  /\ Store(handle_endtag(LinterState, trace[Len(trace)].tag, starttag_text,
                         getpos),
           Event("endtag", starttag_text, trace[Len(trace)].tag, TRUE),
           starttag_text, "feed")
  /\ UNCHANGED <<starttag_text, cdata_elem, input, output>>

\* the overridden parse_endtag: the text endtagfind matches, None if it
\* does not match
get_endtag_text(raw) ==
  LET Text0(match) == IF match.ok THEN Slice(raw, 0, match.end) ELSE None
  IN Text0(endtagfind_match(raw))

\* a closing tag: the overridden parse_endtag stores its text if endtagfind
\* matches it and HTMLParser.parse_endtag calls handle_endtag; the content
\* of <script> and <style> ends at their own closing tag
EndTag(raw, bound) ==
  /\ pc = "feed" /\ Len(trace) < bound
  /\ cdata_elem # None => get_endtag_text(raw) # None
                           /\ endtag_name(raw) = cdata_elem
  /\ cdata_elem' = IF get_endtag_text(raw) # None THEN None ELSE cdata_elem
  /\ Store(handle_endtag([LinterState EXCEPT
                            !.endtag_text = get_endtag_text(raw)],
                         endtag_name(raw), starttag_text, getpos),
           Event("endtag", raw, endtag_name(raw), FALSE), raw, "feed")
  /\ UNCHANGED <<starttag_text, input, output>>

\* the end of the input: __init__ calls close(); text inside <script> and
\* <style> is handed over only when a closing tag follows it
Close ==
  /\ pc = "feed"
  /\ ~(cdata_elem # None /\ LastKind = "data")
  /\ Store(close(LinterState), Event("close", <<>>, <<>>, FALSE), <<>>,
           "closed")
  /\ UNCHANGED <<starttag_text, cdata_elem, input, output>>

\* the caller reads the property messages, which sorts the list in place
Messages ==
  /\ pc \in {"closed", "returned"}
  /\ _messages' = messages(_messages)
  /\ pc' = "returned"
  /\ UNCHANGED <<lineno, offset, starttag_text, cdata_elem, _last_data,
                 _last_data_position, _last_indent, _first_meta_line_col,
                 _after_head_line_col, _has_charset, _endtag_text, exc,
                 trace, emitted, input, output>>

-----------------------------------------------------------------------------
(* Spec: runs over a document made of the tokens below *)

MaxEvents == 3

StartTags ==
  {<<"<","h","e","a","d",">">>, <<"<","h","e","a","d","\n",">">>, <<"<","m","e","t","a"," ","n","a","m","e","=","x",">">>,
   <<"<","m","e","t","a"," ","c","h","a","r","s","e","t","=","\"","u","t","f","-","8","\"",">">>, <<"<","b","r","/",">">>, <<"<","d","i","v"," ","i","d",">">>, <<"<","p","'","b","="," ","A",">">>,
   <<"<","p"," ","i","d","=","X",">">>}
EndTags == {<<"<","/","b","r",">">>, <<"<","/","p",">">>}
Texts == {<<"\n"," "," ">>, <<"x"," ","\n">>}
Decls == {<<"<","!","D","O","C","T","Y","P","E"," ","h","t","m","l",">">>, <<"<","!","d","o","c","t","y","p","e",">">>}
EntityRefs == {<<"&","a","a","c","u","t","e",";">>, <<"&","a","m","p",";">>}
CharRefs == {<<"&","#","3","2",";">>}
Comments == {<<"<","!","-","-","\n","-","-",">">>}

Init ==
  /\ InitLinter
  /\ pc = "feed"
  /\ input = <<>>
  /\ output = <<>>

Next ==
  \/ \E raw \in Texts : Text(raw, MaxEvents)
  \/ \E raw \in Decls : Decl(raw, MaxEvents)
  \/ \E raw \in EntityRefs : EntityRef(raw, MaxEvents)
  \/ \E raw \in CharRefs : CharRef(raw, MaxEvents)
  \/ \E raw \in Comments : Comment(raw, MaxEvents)
  \/ \E raw \in StartTags : StartTag(raw, MaxEvents)
  \/ EndHalf
  \/ \E raw \in EndTags : EndTag(raw, MaxEvents)
  \/ Close
  \/ Messages

Spec == Init /\ [][Next]_vars
-----------------------------------------------------------------------------
(* SpecIndent: runs over indented tags, for the indentation tracker *)

MaxIndentEvents == 5

IndentTexts == {<<"\n"," "," ">>, <<"\n"," "," "," ">>, <<"\n"," "," "," "," "," "," ">>, <<" ","x">>}
IndentStartTags == {<<"<","d","i","v",">">>, <<"<","b","r","/",">">>, <<"<","d","i","v"," ","i","d",">">>}
IndentEndTags == {<<"<","/","d","i","v",">">>}

NextIndent ==
  \/ \E raw \in IndentTexts : Text(raw, MaxIndentEvents)
  \/ \E raw \in IndentStartTags : StartTag(raw, MaxIndentEvents)
  \/ EndHalf
  \/ \E raw \in IndentEndTags : EndTag(raw, MaxIndentEvents)
  \/ Close

SpecIndent == Init /\ [][NextIndent]_vars

-----------------------------------------------------------------------------
(* SpecPure: single calls of the position resolver and of the indentation  *)
(* tracker's _get_indentation on every string of a small alphabet          *)

MaxLen == 3
MaxLine == 2
MaxColumn == 2

PureAlphabet == {"a", SP, TAB, LF, CR, FF}

\* the strings of at most n characters
Strings(n) ==
  UNION {{[i \in 1..k |-> f[i]] : f \in [1..k -> PureAlphabet]} : k \in 0..n}

\* get_line_column(data, line, column, position)
LineColumnCalls ==
  {[fn |-> "get_line_column", data |-> d, line |-> l, column |-> c,
    position |-> p] :
     d \in Strings(MaxLen), l \in 1..MaxLine, c \in 1..MaxColumn,
     p \in 0..MaxLen}

\* _get_indentation() with _last_data = data and _last_data_position =
\* (line, column)
IndentationCalls ==
  {[fn |-> "_get_indentation", data |-> d, line |-> 1, column |-> c,
    position |-> 0] :
     d \in Strings(MaxLen) \cup {None}, c \in 1..MaxColumn}

InitPure ==
  /\ InitLinter
  /\ pc = "call"
  /\ input \in {call \in LineColumnCalls : call.position <= Len(call.data)}
                 \cup IndentationCalls
  /\ output = <<>>

CallGetLineColumn ==
  /\ pc = "call"
  /\ input.fn = "get_line_column"
  /\ output' = get_line_column(input.data, input.line, input.column,
                               input.position)
  /\ pc' = "done"
  /\ UNCHANGED <<lineno, offset, starttag_text, cdata_elem, linter_vars,
                 exc, trace, emitted, input>>

CallGetIndentation ==
  /\ pc = "call"
  /\ input.fn = "_get_indentation"
  /\ output' = _get_indentation(input.data, <<input.line, input.column>>)
  /\ pc' = "done"
  /\ UNCHANGED <<lineno, offset, starttag_text, cdata_elem, linter_vars,
                 exc, trace, emitted, input>>

NextPure ==
  \/ CallGetLineColumn
  \/ CallGetIndentation

SpecPure == InitPure /\ [][NextPure]_vars
-----------------------------------------------------------------------------
(* Properties *)

\* the event of the step, when the step handles a token
Handled == Len(trace') = Len(trace) + 1
LastEvent == trace[Len(trace)]
\* the messages the step appends
Appended == SubSeq(emitted', Len(emitted) + 1, Len(emitted'))

\* the position in the document after `text` that starts at (line, column)
Advance(line, column, text) ==
  <<updatepos(line, column - 1, text)[1],
    updatepos(line, column - 1, text)[2] + 1>>

\* (line, column) order of two messages
LineColumnLE(a, b) ==
  a.line < b.line \/ (a.line = b.line /\ a.column <= b.column)

SortedByLineColumn(l) ==
  \A i \in 1..(Len(l) - 1) : LineColumnLE(l[i], l[i + 1])

\* the messages of l at the position of message m, in their order in l
AtPositionOf(l, m) ==
  SelectSeq(l, LAMBDA n : n.line = m.line /\ n.column = m.column)

\* C1: the sequence the property messages returns is sorted by (line,
\* column), and the messages of one position are in it in the order in
\* which the pass emitted them
MessagesSortedStable ==
  pc = "returned" =>
    /\ Len(_messages) = Len(emitted)
    /\ SortedByLineColumn(_messages)
    /\ \A i \in 1..Len(emitted) :
         AtPositionOf(_messages, emitted[i]) = AtPositionOf(emitted, emitted[i])

\* a returned list that the sort had to reorder and that has two different
\* messages at one position
MessagesSortedStableWitness ==
  /\ pc = "returned"
  /\ ~SortedByLineColumn(emitted)
  /\ \E i, j \in 1..Len(emitted) :
       /\ i < j
       /\ emitted[i] # emitted[j]
       /\ emitted[i].line = emitted[j].line
       /\ emitted[i].column = emitted[j].column

\* C2: a run never aborts: every handler returns and the run ends with the
\* list of messages, for every sequence of tokens
RunNeverAborts == pc # "raised"

-----------------------------------------------------------------------------
(* The position resolver and the candidate indentation, as functions *)

\* what counts as a line break: the two characters get_line_column looks
\* for at the end of the prefix, or all the characters str.splitlines
\* breaks at
LineBreakReadings == {{LF, CR}, LineBoundaries}

\* the indexes of s that end a line break; "\r\n" is one line break
LineBreaksOf(s, breaks) ==
  {i \in 1..Len(s) :
     s[i] \in breaks /\ ~(s[i] = CR /\ i < Len(s) /\ s[i + 1] = LF)}

Maximum(S) == CHOOSE x \in S : \A y \in S : y <= x

\* the result C3 states for the prefix p of the data
StatedLineColumn(p, line, column, position, breaks) ==
  IF LineBreaksOf(p, breaks) = {}
    THEN <<line, column + position>>
    ELSE <<line + Cardinality(LineBreaksOf(p, breaks)),
           1 + (Len(p) - Maximum(LineBreaksOf(p, breaks)))>>

\* C3: get_line_column returns (line, column + position) when the prefix
\* data[0:position] has no line break, and otherwise (line + the number of
\* line breaks of the prefix, 1 + the number of characters after its last
\* line break)
LineColumnAsStated ==
  (pc = "done" /\ input.fn = "get_line_column") =>
    \E breaks \in LineBreakReadings :
      output = StatedLineColumn(Slice(input.data, 0, input.position),
                                input.line, input.column, input.position,
                                breaks)

\* the part of the text after its last line break
AfterLastBreak(s, breaks) ==
  IF LineBreaksOf(s, breaks) = {} THEN s
  ELSE SubSeq(s, Maximum(LineBreaksOf(s, breaks)) + 1, Len(s))

\* the result C7 states
StatedIndentation(text, column, breaks) ==
  IF text = None THEN Unknown
  ELSE IF LineBreaksOf(text, breaks) = {} /\ column # 1 THEN Unknown
  ELSE IF \A i \in 1..Len(AfterLastBreak(text, breaks)) :
            AfterLastBreak(text, breaks)[i] \in {SP, TAB}
    THEN <<Len(AfterLastBreak(text, breaks))
             + count(AfterLastBreak(text, breaks), TAB)>>
  ELSE Unknown

\* C7: _get_indentation is unknown without a stored text, unknown for a
\* text without line break whose column is not 1, and otherwise the length
\* of the part after the last line break with every tab as two spaces, if
\* that part has only spaces, and unknown if not
IndentationAsStated ==
  (pc = "done" /\ input.fn = "_get_indentation") =>
    \E breaks \in LineBreakReadings :
      output = StatedIndentation(input.data, input.column, breaks)

-----------------------------------------------------------------------------
(* The indentation tracker over a run *)

\* the step handles a start tag or an end tag
TagStep ==
  Handled /\ trace'[Len(trace')].kind \in {"starttag", "endtag"}

\* the candidate indentation
Candidate == _get_indentation(_last_data, _last_data_position)

\* the even numbers of 0..last_indent + 2
EvenUpTo(n) == {c \in 0..n : c % 2 = 0}

\* the indentation messages the step appends
IndentationAppended ==
  SelectSeq(Appended, LAMBDA m : m.cls = "IndentationMessage")

\* C4: at a tag whose candidate indentation c is known, an indentation
\* message is emitted if and only if c is not an even number of
\* 0..last_indent + 2; it has c, the minimum 0 and the maximum
\* last_indent + 2 of before the update, at column 1 of the line of the tag
IndentationDiagnostic ==
  [][(TagStep /\ Candidate # Unknown) =>
       IndentationAppended =
         IF Candidate[1] \in EvenUpTo(_last_indent + 2) THEN <<>>
         ELSE <<Message("IndentationMessage",
                        <<trace'[Len(trace')].line, 1>>, <<>>,
                        <<Candidate[1], 0, _last_indent + 2>>)>>]_vars

\* the value C5 states for last_indent after a tag with the candidate c
StatedLastIndent(c, last_indent) ==
  IF c \in EvenUpTo(last_indent + 2) THEN c
  ELSE IF c > last_indent + 2 THEN last_indent + 2
  ELSE IF c > last_indent THEN c + 1
  ELSE c - 1

\* C5: at a tag whose candidate indentation c is known, last_indent
\* becomes c if c is valid, last_indent + 2 if c is above it, c + 1 if c is
\* above last_indent, and c - 1 otherwise
LastIndentUpdate ==
  [][(TagStep /\ Candidate # Unknown) =>
       _last_indent' = StatedLastIndent(Candidate[1], _last_indent)]_vars

\* the step is a tag whose handler reached _check_indentation: handle_endtag
\* calls it before anything that raises, handle_starttag after its rules
IndentationChecked ==
  /\ TagStep
  /\ \/ trace'[Len(trace')].kind = "endtag"
     \/ StartTagRules(LinterState, trace'[Len(trace')].raw,
                      trace'[Len(trace')].tag,
                      dict(parse_starttag(trace'[Len(trace')].raw).attrs),
                      getpos).x = ""

\* the step stores a text: handle_data
TextStored == Handled /\ trace'[Len(trace')].kind \in {"data", "junk"}

\* C6: after the indentation check of a tag the candidate indentation is
\* unknown, whether it was known or not before, and it stays unknown until
\* a text is stored
UnknownAfterCheck ==
  [][/\ IndentationChecked => Candidate' = Unknown
     /\ (Candidate = Unknown /\ ~TextStored) => Candidate' = Unknown]_vars

\* two tags after a text that gave a known indentation: the first consumed
\* it, the second found it unknown
UnknownAfterCheckWitness ==
  /\ Len(trace) >= 3
  /\ trace[Len(trace) - 2].kind = "data"
  /\ _get_indentation(trace[Len(trace) - 2].raw,
                      <<trace[Len(trace) - 2].line,
                        trace[Len(trace) - 2].column>>) # Unknown
  /\ trace[Len(trace) - 1].kind \in {"starttag", "endtag"}
  /\ LastEvent.kind \in {"starttag", "endtag"}
  /\ pc # "raised"
  /\ Candidate = Unknown

-----------------------------------------------------------------------------
(* The end of the input *)

\* the start tags of the run with the tag name `tag`
TagsSeen(tag) ==
  {i \in 1..Len(trace) : trace[i].kind = "starttag" /\ trace[i].tag = tag}

\* a meta start tag with a charset attribute was seen
CharsetSeen ==
  \E i \in TagsSeen(<<"m","e","t","a">>) :
    Has(dict(parse_starttag(trace[i].raw).attrs), <<"c","h","a","r","s","e","t">>)

\* the position C8 states: the first meta tag, or the end of the head tag
StatedCharsetPosition ==
  IF TagsSeen(<<"m","e","t","a">>) # {}
    THEN <<trace[Minimum(TagsSeen(<<"m","e","t","a">>))].line,
           trace[Minimum(TagsSeen(<<"m","e","t","a">>))].column>>
    ELSE Advance(trace[Maximum(TagsSeen(<<"h","e","a","d">>))].line,
                 trace[Maximum(TagsSeen(<<"h","e","a","d">>))].column,
                 trace[Maximum(TagsSeen(<<"h","e","a","d">>))].raw)

\* C8: at the end of the input one missing-charset message is emitted if no
\* meta tag with a charset attribute was seen and a meta or head tag was;
\* none otherwise.  It is at the first meta tag if there is one, whatever
\* the order of the meta and head tags, and otherwise right after the ">"
\* of the head tag
CharsetAtEndOfInput ==
  [][(pc = "feed" /\ pc' = "closed") =>
       Appended =
         IF ~CharsetSeen
            /\ (TagsSeen(<<"m","e","t","a">>) # {} \/ TagsSeen(<<"h","e","a","d">>) # {})
           THEN <<Message("CharsetMessage", StatedCharsetPosition,
                          <<None>>, <<>>)>>
           ELSE <<>>]_vars

\* the input has ended after a head tag followed by a meta tag without
\* charset, and the message is at the meta tag
CharsetAtEndOfInputWitness ==
  /\ pc = "closed"
  /\ ~CharsetSeen
  /\ TagsSeen(<<"h","e","a","d">>) # {}
  /\ TagsSeen(<<"m","e","t","a">>) # {}
  /\ Minimum(TagsSeen(<<"h","e","a","d">>)) < Minimum(TagsSeen(<<"m","e","t","a">>))
  /\ emitted # <<>>
  /\ emitted[Len(emitted)] =
       Message("CharsetMessage",
               <<trace[Minimum(TagsSeen(<<"m","e","t","a">>))].line,
                 trace[Minimum(TagsSeen(<<"m","e","t","a">>))].column>>,
               <<None>>, <<>>)

-----------------------------------------------------------------------------
(* Void elements and the attribute lookups *)

\* the start of the whitespace-and-slash fragment before the ">" of a
\* self-closed tag, 0-based
FragmentStart(raw) ==
  CHOOSE k \in 0..(Len(raw) - 2) :
    /\ \A i \in (k + 1)..(Len(raw) - 2) : raw[i] \in {TAB, SP}
    /\ k = 0 \/ raw[k] \notin {TAB, SP}

\* the message C9 states for the end tag event ev of a void element
StatedVoidMessage(ev) ==
  IF ev.selfclosed
    THEN Message("VoidElementMessage",
                 Advance(ev.line, ev.column,
                         Slice(ev.raw, 0, FragmentStart(ev.raw))),
                 <<ev.tag, Slice(ev.raw, FragmentStart(ev.raw),
                                 Len(ev.raw) - 1)>>, <<>>)
    ELSE Message("VoidElementMessage", <<ev.line, ev.column>>,
                 <<ev.tag, None>>, <<>>)

\* C9: the message for the end tag of a void element has the fragment
\* before ">" and its position when the tag is self-closed, and no fragment
\* and the position of the closing tag when it is an explicit closing tag,
\* whatever start tags came before (stated for the end tags whose handler
\* returns)
VoidElementDiagnostic ==
  [][(Handled /\ trace'[Len(trace')].kind = "endtag" /\ exc' = ""
        /\ trace'[Len(trace')].tag \in VOID_TAGS) =>
       /\ Appended # <<>>
       /\ Appended[Len(Appended)] = StatedVoidMessage(trace'[Len(trace')])]_vars

\* C10: no rule asks for the position of an attribute that the scan of the
\* start tag does not find: the only assertion a run can fail is the one of
\* _check_whitespaces on a tag its pattern does not match
NoFailingLookup ==
  exc = "AssertionError" => ~tag_pattern_match(LastEvent.raw).ok

-----------------------------------------------------------------------------
(* SpecRefs: runs over entity and character references, in the text and    *)
(* in attribute values, with and without the terminating ";"               *)

MaxRefEvents == 3

RefStartTags ==
  {<<"<","a"," ","t","i","t","l","e","=","\"","&","a","a","c","u","t","e",";","\"",">">>, <<"<","a","\n"," ","t","i","t","l","e","=","\"","&","a","a","c","u","t","e",";","&","#","3","2",";","\"",">">>,
   <<"<","a"," ","t","i","t","l","e","=","\""," ","&","a","a","c","u","t","e"," ","&","#","3","2","="," ","&","a","m","p",";","\"",">">>}
RefEntityRefs == {<<"&","a","a","c","u","t","e",";">>, <<"&","a","a","c","u","t","e">>, <<"&","a","m","p",";">>, <<"&","a","m","p">>}
RefCharRefs == {<<"&","#","3","2",";">>, <<"&","#","3","2">>}
RefTexts == {<<" ","x","\n">>}

\* the last token is a reference without ";": the tokenizer hands it over
\* only when a character that ends it follows
Unterminated ==
  /\ LastKind \in {"entityref", "charref"}
  /\ trace[Len(trace)].raw[Len(trace[Len(trace)].raw)] # ";"

NextRefs ==
  \/ \E raw \in RefTexts : Text(raw, MaxRefEvents)
  \/ \E raw \in RefEntityRefs : EntityRef(raw, MaxRefEvents)
  \/ \E raw \in RefCharRefs : CharRef(raw, MaxRefEvents)
  \/ \E raw \in RefStartTags : StartTag(raw, MaxRefEvents)
  \/ (~Unterminated /\ Close)

SpecRefs == Init /\ [][NextRefs]_vars

-----------------------------------------------------------------------------
(* References *)

\* the offsets of text at which the string s starts
OccurrencesOf(text, s) ==
  {p \in 0..(Len(text) - Len(s)) : Slice(text, p, p + Len(s)) = s}

\* the entity messages among the messages the step appends
AppendedReferences ==
  SelectSeq(Appended, LAMBDA m : m.cls = "EntityReferenceMessage")

\* the step handles a start tag and its handler returns
StartTagReturns ==
  Handled /\ trace'[Len(trace')].kind = "starttag" /\ exc' = ""

\* C11: a reference inside an attribute value is reported at the line and
\* column in the document of its "&", get_line_column(text of the tag, line
\* and column of the tag, offset of "&" in the text of the tag), also when
\* the tag spans several lines; after the start tag the tokenizer goes on
\* from the position of the tag, not from the one of the reference
ReferenceAtItsAmpersand ==
  [][StartTagReturns =>
       LET At_(ev) ==
             /\ \A i \in 1..Len(AppendedReferences) :
                  \E p \in OccurrencesOf(ev.raw, AppendedReferences[i].strs[1]) :
                    <<AppendedReferences[i].line, AppendedReferences[i].column>>
                      = get_line_column(ev.raw, ev.line, ev.column, p)
             /\ <<lineno', offset' + 1>>
                  = IF ev.selfclosed THEN <<ev.line, ev.column>>
                    ELSE Advance(ev.line, ev.column, ev.raw)
       IN At_(trace'[Len(trace')])]_vars

\* the reference ends with ";"
Terminated(raw) == raw[Len(raw)] = ";"

\* the offsets of s at which a reference that the claim says is reported
\* starts: "&" name ";" with a name that is not one of VALID_ENTITIES, or
\* "&#" number ";"
ReportedReferences(s) ==
  {p \in 0..(Len(s) - 1) :
     \/ /\ EntityRefAt(s, p) # <<>>
        /\ At(s, EntityRefAt(s, p)[1]) = ";"
        /\ Slice(s, p + 1, EntityRefAt(s, p)[1]) \notin VALID_ENTITIES
     \/ /\ CharRefAt(s, p) # <<>>
        /\ At(s, CharRefAt(s, p)[1]) = ";"}

\* C12: a reference is reported only if it ends with ";": a reference of
\* the text without ";" gives no message, one with ";" gives a message iff
\* it is numeric or its name is not one of lt, gt, amp, quot, nbsp, ensp,
\* emsp, thinsp; a start tag gives one message for each such reference of
\* its attribute values
ReportedIffTerminated ==
  [][/\ (Handled /\ trace'[Len(trace')].kind \in {"entityref", "charref"}) =>
          Len(AppendedReferences)
            = Cardinality(ReportedReferences(trace'[Len(trace')].raw))
     /\ StartTagReturns =>
          Len(AppendedReferences)
            = Cardinality(ReportedReferences(trace'[Len(trace')].raw))]_vars

-----------------------------------------------------------------------------
(* The text of a message: what the constructors of the message classes     *)
(* compute from their arguments, and Message.__unicode__                   *)

\* the interpreters the module runs on: repr() of a text is u'...' on
\* Python 2 (unicode_literals) and '...' on Python 3
PythonVersions == {2, 3}

RECURSIVE Concat(_)
Concat(parts) ==
  IF parts = <<>> THEN <<>> ELSE Head(parts) \o Concat(Tail(parts))

\* '%d' % n
RECURSIVE Decimal(_)
Decimal(n) ==
  IF n < 0 THEN <<"-">> \o Decimal(0 - n)
  ELSE IF n < 10 THEN <<<<"0","1","2","3","4","5","6","7","8","9">>[n + 1]>>
  ELSE Decimal(n \div 10) \o <<<<"0","1","2","3","4","5","6","7","8","9">>[(n % 10) + 1]>>

\* repr() of a text of spaces, tabs, letters and punctuation other than
\* quotes and backslashes
repr(s, py) ==
  (IF py = 2 THEN <<"u","'">> ELSE <<"'">>)
    \o Concat([i \in 1..Len(s) |-> IF s[i] = TAB THEN <<"\\","t">> ELSE <<s[i]>>])
    \o <<"'">>

\* the class attribute level
level(cls) ==
  IF cls = "OptionalTagMessage" THEN <<"I","n","f","o">>
  ELSE IF cls = "ProtocolMessage" THEN <<"W","a","r","n","i","n","g">>
  ELSE <<"E","r","r","o","r">>

\* the class attribute category
category(cls) ==
  CASE cls = "DocumentTypeMessage" -> <<"D","o","c","u","m","e","n","t"," ","T","y","p","e">>
    [] cls = "EntityReferenceMessage" -> <<"E","n","t","i","t","y"," ","R","e","f","e","r","e","n","c","e","s">>
    [] cls = "TrailingWhitespaceMessage" -> <<"T","r","a","i","l","i","n","g"," ","W","h","i","t","e","s","p","a","c","e">>
    [] cls = "TabMessage" -> <<"I","n","d","e","n","t","a","t","i","o","n">>
    [] cls = "CharsetMessage" -> <<"E","n","c","o","d","i","n","g">>
    [] cls = "VoidElementMessage" -> <<"D","o","c","u","m","e","n","t"," ","T","y","p","e">>
    [] cls = "OptionalTagMessage" -> <<"O","p","t","i","o","n","a","l"," ","T","a","g","s">>
    [] cls = "TypeAttributeMessage" -> <<"t","y","p","e"," ","A","t","t","r","i","b","u","t","e","s">>
    [] cls = "ConcernsSeparationMessage" -> <<"S","e","p","a","r","a","t","i","o","n"," ","o","f"," ","c","o","n","c","e","r","n","s">>
    [] cls = "ProtocolMessage" -> <<"P","r","o","t","o","c","o","l">>
    [] cls = "NameMessage" -> <<"I","D"," ","a","n","d"," ","C","l","a","s","s"," ","N","a","m","e"," ","D","e","l","i","m","i","t","e","r","s">>
    [] cls = "CapitalizationMessage" -> <<"C","a","p","i","t","a","l","i","z","a","t","i","o","n">>
    [] cls = "QuotationMessage" -> <<"H","T","M","L"," ","Q","u","o","t","a","t","i","o","n"," ","M","a","r","k","s">>
    [] cls = "IndentationMessage" -> <<"I","n","d","e","n","t","a","t","i","o","n">>
    [] cls = "FormattingMessage" -> <<"G","e","n","e","r","a","l"," ","F","o","r","m","a","t","t","i","n","g">>
    [] cls = "BooleanAttributeMessage" -> <<"B","o","o","l","e","a","n"," ","A","t","t","r","i","b","u","t","e","s">>
    [] cls = "InvalidAttributeMessage" -> <<"I","n","v","a","l","i","d"," ","A","t","t","r","i","b","u","t","e","s">>
    [] cls = "VoidZeroMessage" -> <<"J","a","v","a","s","c","r","i","p","t"," ","L","i","n","k","s">>
    [] cls = "InvalidHandlerMessage" -> <<"J","a","v","a","s","c","r","i","p","t"," ","L","i","n","k","s">>
    [] cls = "HTTPEquivMessage" -> <<"H","T","T","P"," ","E","q","u","i","v">>
    [] cls = "ExtraWhitespaceMessage" -> <<"E","x","t","r","a"," ","w","h","i","t","e","s","p","a","c","e">>
    [] OTHER -> <<"N","o","n","e">>

\* TypeAttributeMessage.__init__: default_type
default_type(tag) ==
  IF tag \in {<<"l","i","n","k">>, <<"s","t","y","l","e">>} THEN <<"t","e","x","t","/","c","s","s">>
  ELSE IF tag = <<"s","c","r","i","p","t">> THEN <<"t","e","x","t","/","j","a","v","a","s","c","r","i","p","t">>
  ELSE <<"u","n","k","n","o","w","n">>

\* the branch ConcernsSeparationMessage.__init__ takes for (tag, attribute)
ConcernsBranch(tag, attribute) ==
  IF tag = <<"s","c","r","i","p","t">> THEN "script"
  ELSE IF tag = <<"s","t","y","l","e">> THEN "style"
  ELSE IF tag = <<"a">> /\ attribute = <<"h","r","e","f">> THEN "href"
  ELSE IF attribute = <<"s","t","y","l","e">> THEN "style attribute"
  ELSE IF startswith(attribute, <<"o","n">>) THEN "on"
  ELSE "none"

\* the description as '%s' formats it: the class attribute, or the instance
\* attribute the constructor sets (for an inline style tag a tuple of one
\* text, which is formatted as a tuple)
description(m, py) ==
  LET Concerns(branch) ==
        CASE branch \in {"script", "href", "on"} ->
               <<"J","a","v","a","s","c","r","i","p","t"," ","s","h","o","u","l","d"," ","b","e"," ","d","e","f","i","n","e","d"," ","i","n"," ","i","t","s"," ","o","w","n"," ","f","i","l","e">>
          [] branch = "style" ->
               <<"(">> \o repr(<<"C","S","S"," ","s","h","o","u","l","d"," ","b","e"," ","d","e","f","i","n","e","d"," ","i","n"," ","i","t","s"," ","o","w","n"," ","f","i","l","e">>, py)
                 \o <<",",")">>
          [] branch = "style attribute" ->
               <<"C","S","S"," ","s","h","o","u","l","d"," ","b","e"," ","d","e","f","i","n","e","d"," ","i","n"," ","i","t","s"," ","o","w","n"," ","f","i","l","e">>
          [] OTHER -> <<"N","o","n","e">>
  IN
  CASE m.cls = "DocumentTypeMessage" -> <<"U","s","e"," ","H","T","M","L","5">>
    [] m.cls = "EntityReferenceMessage" ->
         <<"U","s","e"," ","t","h","e"," ","u","n","i","c","o","d","e"," ","e","q","u","i","v","a","l","e","n","t"," ","i","n","s","t","e","a","d">>
    [] m.cls = "TrailingWhitespaceMessage" ->
         <<"T","r","a","i","l","i","n","g"," ","w","h","i","t","e"," ","s","p","a","c","e","s"," ","a","r","e"," ","u","n","n","e","c","e","s","s","a","r","y"," ","a","n","d"," ","c","a","n"," ","c","o","m","p","l","i","c","a","t","e"," ","d","i","f","f","s">>
    [] m.cls = "TabMessage" -> <<"D","o"," ","n","o","t"," ","u","s","e"," ","t","a","b","s">>
    [] m.cls = "CharsetMessage" -> <<"T","h","e"," ","m","e","t","a"," ","c","h","a","r","s","e","t"," ","s","h","o","u","l","d"," ","b","e"," ","s","e","t"," ","t","o"," ","u","t","f","-","8">>
    [] m.cls = "VoidElementMessage" -> <<"D","o"," ","n","o","t"," ","c","l","o","s","e"," ","v","o","i","d"," ","e","l","e","m","e","n","t","s">>
    [] m.cls = "OptionalTagMessage" -> <<"O","m","i","t"," ","o","p","t","i","o","n","a","l"," ","t","a","g","s"," ","(","o","p","t","i","o","n","a","l",")">>
    [] m.cls = "TypeAttributeMessage" ->
         Concat(<<<<"T","h","e"," ","d","e","f","a","u","l","t"," ","t","y","p","e"," ","f","o","r"," ">>, m.strs[1], <<" ","t","a","g","s"," ","i","s"," ","\"">>,
                  default_type(m.strs[1]),
                  <<"\""," ","s","o"," ","i","t"," ","c","a","n"," ","b","e"," ","s","a","f","e","l","y"," ","o","m","i","t","t","e","d">>>>)
    [] m.cls = "ConcernsSeparationMessage" ->
         Concerns(ConcernsBranch(m.strs[1], m.strs[2]))
    [] m.cls = "ProtocolMessage" ->
         <<"D","o"," ","n","o","t"," ","s","p","e","c","i","f","y"," ","t","h","e"," ","p","r","o","t","o","c","o","l"," ","u","n","l","e","s","s"," ","r","e","q","u","i","r","e","d">>
    [] m.cls = "NameMessage" ->
         Concat(<<<<"T","h","e"," ">>, m.strs[1],
                  <<" ","n","a","m","e","s"," ","s","h","o","u","l","d"," ","b","e"," ","l","o","w","e","r","c","a","s","e"," ","a","n","d"," ","w","i","t","h"," ","h","y","p","h","e","n","s"," ","i","n","s","t","e","a","d"," ","o","f"," ","u","n","d","e","r","s","c","o","r","e","s">>>>)
    [] m.cls = "CapitalizationMessage" ->
         IF m.strs[2] = None THEN <<"T","a","g","s"," ","s","h","o","u","l","d"," ","b","e"," ","i","n"," ","l","o","w","e","r","c","a","s","e">>
         ELSE <<"A","t","t","r","i","b","u","t","e","s"," ","s","h","o","u","l","d"," ","b","e"," ","i","n"," ","l","o","w","e","r","c","a","s","e">>
    [] m.cls = "QuotationMessage" -> <<"U","s","e"," ","o","n","l","y"," ","d","o","u","b","l","e"," ","q","u","o","t","e","s">>
    [] m.cls = "IndentationMessage" -> <<"U","s","e"," ","t","w","o"," ","s","p","a","c","e","s"," ","a","n","d"," ","n","o"," ","t","a","b","s">>
    [] m.cls = "FormattingMessage" ->
         <<"U","s","e"," ","a"," ","n","e","w"," ","l","i","n","e"," ","f","o","r"," ","e","v","e","r","y"," ","b","l","o","c","k",","," ","l","i","s","t",","," ","o","r"," ","t","a","b","l","e"," ","e","l","e","m","e","n","t",","," ","a","n","d"," ","i","n","d","e","n","t"," ","e","v","e","r","y"," ","s","u","c","h"," ","c","h","i","l","d"," ","e","l","e","m","e","n","t">>
    [] m.cls = "BooleanAttributeMessage" ->
         <<"B","o","o","l","e","a","n"," ","a","t","t","r","i","b","u","t","e","s"," ","d","e","f","i","n","e"," ","t","h","e","i","r"," ","v","a","l","u","e"," ","b","a","s","e","d"," ","o","n"," ","t","h","e"," ","p","r","e","s","e","n","c","e"," ","o","r"," ","a","b","s","c","e","n","c","e"," ","o","f"," ","t","h","e"," ","a","t","t","r","i","b","u","t","e">>
    [] m.cls = "InvalidAttributeMessage" ->
         IF m.strs[1] = <<"c","h","a","r","s","e","t">>
           THEN <<"T","h","e"," ","a","t","t","r","i","b","u","t","e"," ","\"","c","h","a","r","s","e","t","\""," ","a","p","p","l","i","e","s"," ","o","n","l","y"," ","t","o"," ","e","x","t","e","r","n","a","l"," ","r","e","s","o","u","r","c","e","s">>
         ELSE IF m.strs[1] = <<"l","a","n","g","u","a","g","e">>
           THEN <<"T","h","e"," ","a","t","t","r","i","b","u","t","e"," ","\"","l","a","n","g","u","a","g","e","\""," ","w","a","s"," ","d","e","p","r","e","c","a","t","e","d"," ","m","o","r","e"," ","t","h","a","n"," ","1","0"," ","y","e","a","r","s"," ","a","g","o">>
         ELSE IF m.strs[1] = <<"n","a","m","e">>
           THEN <<"T","h","e"," ","a","t","t","r","i","b","u","t","e"," ","\"","n","a","m","e","\""," ","i","s"," ","n","o"," ","l","o","n","g","e","r"," ","r","e","q","u","i","r","e","d"," ","f","o","r"," ","a","n","c","h","o","r","s">>
         ELSE <<"N","o","n","e">>
    [] m.cls = "VoidZeroMessage" ->
         <<"I","t"," ","i","s"," ","b","a","d"," ","p","r","a","c","t","i","c","e"," ","t","o"," ","u","s","e"," ","j","a","v","a","s","c","r","i","p","t",":","v","o","i","d","(","0",")"," ","t","o"," ","p","r","e","v","e","n","t"," ","t","h","e"," ","d","e","f","a","u","l","t"," ","a","n","d"," ","i","t"," ","a","l","s","o"," ","p","r","e","v","e","n","t","s"," ","t","h","e"," ","u","s","e"," ","o","f"," ","C","S","P">>
    [] m.cls = "InvalidHandlerMessage" ->
         <<"E","v","e","n","t"," ","h","a","n","d","l","e","r","s"," ","s","h","o","u","l","d"," ","n","o","t"," ","h","a","v","e"," ","t","h","e"," ","j","a","v","a","s","c","r","i","p","t"," ","p","r","o","t","o","c","o","l">>
    [] m.cls = "HTTPEquivMessage" ->
         <<"H","T","M","L","5"," ","r","e","s","t","r","i","c","t","s"," ","t","h","e"," ","v","a","l","u","e","s"," ","o","f"," ","h","t","t","p","-","e","q","u","i","v">>
    [] m.cls = "ExtraWhitespaceMessage" ->
         <<"U","s","e"," ","w","h","i","t","e","s","p","a","c","e","s"," ","o","n","l","y"," ","w","h","e","r","e"," ","e","x","p","e","c","t","e","d"," ","a","n","d"," ","b","e"," ","c","o","n","s","i","s","t","e","n","t">>
    [] OTHER -> <<"N","o","n","e">>

\* the attribute message the constructor sets
message(m, py) ==
  LET Concerns(branch) ==
        CASE branch = "script" ->
               <<"M","o","v","e"," ","t","h","e"," ","c","o","n","t","e","n","t","s"," ","o","f"," ","t","h","i","s"," ","t","a","g"," ","t","o"," ","i","t","s"," ","o","w","n"," ","J","S"," ","f","i","l","e">>
          [] branch = "style" ->
               <<"M","o","v","e"," ","t","h","e"," ","c","o","n","t","e","n","t","s"," ","o","f"," ","t","h","i","s"," ","t","a","g"," ","t","o"," ","i","t","s"," ","o","w","n"," ","C","S","S"," ","f","i","l","e">>
          [] branch = "href" ->
               <<"M","o","v","e"," ","t","h","e"," ","c","o","n","t","e","n","t","s"," ","o","f"," ","t","h","e"," ","\"","h","r","e","f","\""," ","a","t","t","r","i","b","u","t","e"," ","t","o"," ","i","t","s"," ","o","w","n"," ","J","S"," ","f","i","l","e">>
          [] branch = "style attribute" ->
               <<"M","o","v","e"," ","t","h","e"," ","c","o","n","t","e","n","t","s"," ","o","f"," ","t","h","e"," ","\"","s","t","y","l","e","\""," ","a","t","t","r","i","b","u","t","e"," ","t","o"," ","i","t","s"," ","o","w","n"," ","C","S","S"," ","f","i","l","e">>
          [] branch = "on" ->
               Concat(<<<<"R","e","g","i","s","t","e","r"," ","t","h","e"," ","h","a","n","d","l","e","r"," ","f","o","r"," ","\"">>, m.strs[2],
                        <<"\""," ","w","i","t","h"," ","e","v","e","n","t","s"," ","i","n"," ","a"," ","J","S"," ","f","i","l","e">>>>)
          [] OTHER -> <<"N","o","n","e">>
      HTTPEquiv(http_equiv) ==
        IF http_equiv = <<"c","o","n","t","e","n","t","-","l","a","n","g","u","a","g","e">>
          THEN <<"S","p","e","c","i","f","y"," ","t","h","e"," ","l","a","n","g","u","a","g","e"," ","i","n"," ","t","h","e"," ","h","t","m","l"," ","t","a","g",","," ","s","e","e"," ","h","t","t","p",":","/","/","w","w","w",".","w","3",".","o","r","g","/","I","n","t","e","r","n","a","t","i","o","n","a","l","/","q","u","e","s","t","i","o","n","s","/","q","a","-","h","t","t","p","-","a","n","d","-","l","a","n","g",".","e","n","#","a","n","s","w","e","r">>
        ELSE IF http_equiv = <<"c","o","n","t","e","n","t","-","t","y","p","e">>
          THEN <<"R","e","p","l","a","c","e"," ","t","h","i","s"," ","b","y"," ","<","m","e","t","a"," ","c","h","a","r","s","e","t","=","\"","u","t","f","-","8","\"",">">>
        ELSE IF http_equiv = <<"s","e","t","-","c","o","o","k","i","e">>
          THEN Concat(<<<<"T","h","e"," ","h","t","t","p","-","e","q","u","i","v"," ","\"">>, http_equiv,
                        <<"\""," ","d","i","r","e","c","t","i","v","e"," ","i","s"," ","n","o","n"," ","c","o","n","f","o","r","m","a","n","t",","," ","a","v","o","i","d"," ","i","t">>>>)
        ELSE IF http_equiv \in {<<"p","r","a","g","m","a">>, <<"e","x","p","i","r","e","s">>}
          THEN Concat(<<<<"H","T","M","L","5"," ","d","o","e","s"," ","n","o","t"," ","a","l","l","o","w"," ","t","h","e"," ","h","t","t","p","-","e","q","u","i","v"," ","\"">>,
                        http_equiv,
                        <<"\""," ","d","i","r","e","c","t","i","v","e","."," ","T","o"," ","c","a","c","h","e"," ","y","o","u"," ","n","e","e","d"," ","t","o"," ","u","s","e"," ","t","h","e"," ","H","T","T","P"," ","h","e","a","d","e","r","s"," ","o","r"," ","A","p","p","c","a","c","h","e"," ","w","i","t","h"," ","a"," ","m","a","n","i","f","e","s","t"," ","f","i","l","e">>>>)
        ELSE Concat(<<<<"H","T","M","L","5"," ","d","o","e","s"," ","n","o","t"," ","a","l","l","o","w"," ","t","h","e"," ","h","t","t","p","-","e","q","u","i","v"," ","\"">>, http_equiv,
                      <<"\""," ","d","i","r","e","c","t","i","v","e">>>>)
  IN
  CASE m.cls = "DocumentTypeMessage" ->
         Concat(<<<<"C","h","a","n","g","e"," ","\"">>, m.strs[1], <<"\""," ","t","o"," ","\"","<","!","D","O","C","T","Y","P","E"," ","h","t","m","l",">","\"">>>>)
    [] m.cls = "EntityReferenceMessage" ->
         Concat(<<<<"C","h","a","n","g","e"," ","\"">>, m.strs[1], <<"\""," ","t","o"," ","\"">>,
                  unescape(m.strs[1]), <<"\"">>>>)
    [] m.cls = "TrailingWhitespaceMessage" ->
         Concat(<<<<"R","e","m","o","v","e"," ","t","h","e"," ">>, repr(m.strs[1], py),
                  <<" ","a","t"," ","t","h","e"," ","e","n","d"," ","o","f"," ","t","h","e"," ","l","i","n","e">>>>)
    [] m.cls = "TabMessage" -> <<"R","e","m","o","v","e"," ","t","h","e"," ","t","a","b","s">>
    [] m.cls = "CharsetMessage" ->
         IF m.strs[1] # None /\ m.strs[1] # <<>>
           THEN Concat(<<<<"C","h","a","n","g","e"," ","t","h","e"," ","c","h","a","r","s","e","t"," ","f","r","o","m"," ","\"">>, m.strs[1],
                         <<"\""," ","t","o"," ","\"","u","t","f","-","8","\"">>>>)
           ELSE <<"A","d","d"," ","t","h","e"," ","t","a","g"," ","<","m","e","t","a"," ","c","h","a","r","s","e","t","=","\"","u","t","f","-","8","\"",">">>
    [] m.cls = "VoidElementMessage" ->
         IF m.strs[2] = None
           THEN Concat(<<<<"R","e","m","o","v","e"," ","t","h","e"," ","c","l","o","s","i","n","g"," ">>, m.strs[1],
                         <<" ","t","a","g",","," ","i","t"," ","i","s"," ","a"," ","h","u","g","e"," ","c","o","n","c","e","p","t","u","a","l"," ","e","r","r","o","r"," ","t","o"," ","c","l","o","s","e"," ","i","t">>>>)
           ELSE Concat(<<<<"R","e","m","o","v","e"," ","t","h","e"," ","t","r","a","i","l","i","n","g"," ","\"">>, m.strs[2],
                         <<"\""," ","f","r","o","m"," ","t","h","e"," ">>, m.strs[1], <<" ","t","a","g">>>>)
    [] m.cls = "OptionalTagMessage" ->
         Concat(<<<<"Y","o","u"," ","m","a","y"," ","r","e","m","o","v","e"," ","t","h","e"," ">>,
                  IF m.nums[1] = 1 THEN <<"o","p","e","n","i","n","g">> ELSE <<"c","l","o","s","i","n","g">>,
                  <<" ","\"">>, m.strs[1], <<"\""," ","t","a","g">>>>)
    [] m.cls = "TypeAttributeMessage" ->
         Concat(<<<<"R","e","m","o","v","e"," ","t","h","e"," ","t","y","p","e"," ","a","t","t","r","i","b","u","t","e"," ","f","r","o","m"," ","t","h","e"," ">>, m.strs[1],
                  <<" ","t","a","g">>>>)
    [] m.cls = "ConcernsSeparationMessage" ->
         Concerns(ConcernsBranch(m.strs[1], m.strs[2]))
    [] m.cls = "ProtocolMessage" ->
         Concat(<<<<"R","e","m","o","v","e"," ","t","h","e"," ","p","r","o","t","o","c","o","l"," ","\"">>, m.strs[1],
                  <<"\""," ","f","r","o","m"," ","t","h","e"," ","u","r","l">>>>)
    [] m.cls = "NameMessage" ->
         Concat(<<<<"R","e","m","o","v","e"," ","t","h","e"," ","o","f","f","e","n","d","i","n","g"," ","c","h","a","r","a","c","t","e","r","s"," ","f","r","o","m"," ","t","h","e"," ">>, m.strs[1],
                  <<" ","\"">>, m.strs[2], <<"\"">>>>)
    [] m.cls = "CapitalizationMessage" ->
         IF m.strs[2] = None
           THEN Concat(<<<<"C","h","a","n","g","e"," ","t","h","e"," ">>,
                         IF m.nums[1] = 1 THEN <<"c","l","o","s","i","n","g">> ELSE <<"o","p","e","n","i","n","g">>,
                         <<" ","t","a","g"," ","\"">>, m.strs[1], <<"\""," ","t","o"," ","\"">>,
                         lower(m.strs[1]), <<"\"">>>>)
           ELSE Concat(<<<<"C","h","a","n","g","e"," ","t","h","e"," ","a","t","t","r","i","b","u","t","e"," ","\"">>, m.strs[2],
                         <<"\""," ","t","o"," ","\"">>, lower(m.strs[2]), <<"\"">>>>)
    [] m.cls = "QuotationMessage" ->
         Concat(<<<<"C","h","a","n","g","e"," ","t","h","e"," ","q","u","o","t","a","t","i","o","n"," ","m","a","r","k"," ">>, m.strs[1], <<" ","t","o"," ","'","\"","'">>>>)
    [] m.cls = "IndentationMessage" ->
         Concat(<<<<"W","a","s"," ","e","x","p","e","c","t","i","n","g"," ","b","e","t","w","e","e","n"," ">>, Decimal(m.nums[2]), <<" ","a","n","d"," ">>,
                  Decimal(m.nums[3]), <<" ","(","i","n"," ","m","u","l","t","i","p","l","e","s"," ","o","f"," ","2",")"," ","s","p","a","c","e","s"," ","b","u","t"," ","g","o","t"," ">>,
                  Decimal(m.nums[1])>>)
    [] m.cls = "FormattingMessage" ->
         Concat(<<<<"M","o","v","e"," ","t","h","e"," ","o","p","e","n","i","n","g"," ","\"">>, m.strs[1],
                  <<"\""," ","t","o"," ","i","t","s"," ","o","w","n"," ","l","i","n","e">>>>)
    [] m.cls = "BooleanAttributeMessage" ->
         Concat(<<<<"C","h","a","n","g","e"," ","'">>, m.strs[1], <<"=","\"">>, m.strs[2],
                  <<"\"","'"," ","t","o"," ","j","u","s","t"," ","'">>, m.strs[1], <<"'">>>>)
    [] m.cls = "InvalidAttributeMessage" ->
         IF m.strs[1] = <<"c","h","a","r","s","e","t">> THEN <<"R","e","m","o","v","e"," ","t","h","e"," ","\"","c","h","a","r","s","e","t","\""," ","a","t","t","r","i","b","u","t","e">>
         ELSE IF m.strs[1] = <<"l","a","n","g","u","a","g","e">>
           THEN <<"R","e","m","o","v","e"," ","t","h","e"," ","\"","l","a","n","g","u","a","g","e","\""," ","a","t","t","r","i","b","u","t","e">>
         ELSE IF m.strs[1] = <<"n","a","m","e">>
           THEN <<"R","e","m","o","v","e"," ","t","h","e"," ","\"","n","a","m","e","\""," ","a","t","t","r","i","b","u","t","e"," ","a","n","d"," ","r","e","p","l","a","c","e"," ","i","t"," ","w","i","t","h"," ","a","n","d"," ","i","d"," ","i","f"," ","r","e","q","u","i","r","e","d">>
         ELSE <<"N","o","n","e">>
    [] m.cls = "VoidZeroMessage" ->
         <<"C","h","a","n","g","e"," ","t","h","e"," ","\"","h","r","e","f","\""," ","a","t","t","r","i","b","u","t","e"," ","t","o"," ","h","r","e","f","=","\"","#","\""," ","o","r"," ","d","i","s","a","b","l","e"," ","t","h","e"," ","d","e","f","a","u","l","t"," ","b","y"," ","a","t","t","a","c","h","i","n","g"," ","a","n"," ","o","n","c","l","i","c","k"," ","e","v","e","n","t"," ","t","o"," ","t","h","i","s"," ","e","l","e","m","e","n","t"," ","a","n","d"," ","u","s","i","n","g"," ","e",".","p","r","e","v","e","n","t","d","e","f","a","u","l","t","(",")">>
    [] m.cls = "InvalidHandlerMessage" ->
         Concat(<<<<"R","e","m","o","v","e"," ","t","h","e"," ","\"","j","a","v","a","s","c","r","i","p","t",":","\""," ","p","r","e","f","i","x"," ","f","r","o","m"," ","t","h","e"," ","\"">>,
                  m.strs[1], <<"\""," ","a","t","t","r","i","b","u","t","e">>>>)
    [] m.cls = "HTTPEquivMessage" -> HTTPEquiv(lower(m.strs[1]))
    [] m.cls = "ExtraWhitespaceMessage" -> <<"R","e","m","o","v","e"," ","t","h","e"," ","e","x","t","r","a"," ","w","h","i","t","e","s","p","a","c","e","s">>
    [] OTHER -> <<"N","o","n","e">>

\* Message.__unicode__
__unicode__(m, py) ==
  Concat(<<Decimal(m.line), <<":">>, Decimal(m.column), <<":"," ">>, level(m.cls),
           <<":"," ">>, category(m.cls), <<":"," ">>, description(m, py), <<":"," ">>,
           message(m, py), <<".">>>>)

-----------------------------------------------------------------------------
(* lint(html, exclude): the run, then the messages that are not instances  *)
(* of an excluded class, rendered and joined                               *)

\* isinstance(m, tuple(classes)): every message class derives from Message
isinstance(m, classes) == m.cls \in classes \/ "Message" \in classes

\* tuple(exclude) as the comprehension evaluates it for the i-th message: a
\* list gives its classes every time, an iterator gives them the first
\* time and nothing from then on; "exclude or []" for None
tuple_exclude(exclude, i) ==
  IF exclude.kind = "None" THEN {}
  ELSE IF exclude.kind = "iterator" /\ i > 1 THEN {}
  ELSE exclude.classes

\* sep.join(l)
RECURSIVE join(_, _)
join(sep, l) ==
  IF l = <<>> THEN <<>>
  ELSE IF Len(l) = 1 THEN l[1]
  ELSE l[1] \o sep \o join(sep, Tail(l))

\* the indexes of the sorted messages that the comprehension keeps
KeptByLint(msgs, exclude) ==
  SelectSeq([i \in 1..Len(msgs) |-> i],
            LAMBDA i : ~isinstance(msgs[i], tuple_exclude(exclude, i)))

\* lint, from the sorted messages of the run on
lint(msgs, exclude, py) ==
  LET Rendered(kept) ==
        [k \in 1..Len(kept) |-> __unicode__(msgs[kept[k]], py)]
  IN join(<<LF>>, Rendered(KeptByLint(msgs, exclude)))

\* lint(html, exclude) returns: HTML5Linter(html) has returned, its
\* property messages sorts the list, the comprehension and the join follow
Lint(exclude, py) ==
  /\ pc = "closed"
  /\ _messages' = messages(_messages)
  /\ input' = [exclude |-> exclude, python |-> py]
  /\ output' = lint(messages(_messages), exclude, py)
  /\ pc' = "linted"
  /\ UNCHANGED <<lineno, offset, starttag_text, cdata_elem, _last_data,
                 _last_data_position, _last_indent, _first_meta_line_col,
                 _after_head_line_col, _has_charset, _endtag_text, exc,
                 trace, emitted>>

-----------------------------------------------------------------------------
(* SpecLint: lint over small documents and exclusions *)

MaxLintEvents == 3

LintStartTags == {<<"<","b","r","/",">">>, <<"<","p"," ",">">>}
LintTexts == {<<"x"," ","\n","\t">>}

\* the exclude arguments: None, lists and iterators of message classes
Excludes ==
  {[kind |-> "None", classes |-> {}]}
    \cup {[kind |-> k, classes |-> c] :
            k \in {"list", "iterator"},
            c \in {{}, {"VoidElementMessage"},
                   {"TabMessage", "ExtraWhitespaceMessage"}, {"Message"}}}

NextLint ==
  \/ \E raw \in LintTexts : Text(raw, MaxLintEvents)
  \/ \E raw \in LintStartTags : StartTag(raw, MaxLintEvents)
  \/ EndHalf
  \/ Close
  \/ \E exclude \in Excludes, py \in PythonVersions : Lint(exclude, py)

SpecLint == Init /\ [][NextLint]_vars

-----------------------------------------------------------------------------
(* Exclusion *)

\* the diagnostics lint(html) renders, one for each message of the run
RenderedDiagnostics ==
  [i \in 1..Len(_messages) |-> __unicode__(_messages[i], input.python)]

\* the message belongs to an excluded identifier
Excluded(m) == isinstance(m, input.exclude.classes)

\* C13: lint(html, exclude) is the rendered diagnostics of lint(html)
\* without the ones of an excluded identifier: every other one is kept,
\* none is added, the order is the one without exclusion; it is the empty
\* string when none is left
LintRemovesExcluded ==
  pc = "linted" =>
    /\ lint(_messages, [kind |-> "None", classes |-> {}], input.python)
         = join(<<LF>>, RenderedDiagnostics)
    /\ output
         = join(<<LF>>,
                LET Kept ==
                      SelectSeq([i \in 1..Len(_messages) |-> i],
                                LAMBDA i : ~Excluded(_messages[i]))
                IN [k \in 1..Len(Kept) |-> RenderedDiagnostics[Kept[k]]])
    /\ (\A i \in 1..Len(_messages) : Excluded(_messages[i])) => output = <<>>

-----------------------------------------------------------------------------
(* SpecTwo: two HTML5Linter objects whose runs are interleaved, and new    *)
(* objects constructed after finished runs.  The variables hold the object *)
(* whose handler runs next, input holds the other object, output counts    *)
(* the objects constructed after the first two.                            *)

\* everything the object holds: the attributes of HTMLParser and of the
\* linter, and the point its run has reached
Instance ==
  [lineno |-> lineno, offset |-> offset, starttag_text |-> starttag_text,
   cdata_elem |-> cdata_elem, state |-> LinterState, pc |-> pc, exc |-> exc,
   trace |-> trace, emitted |-> emitted]

\* the object HTML5Linter.__init__ has set up when it calls feed(), with
\* _last_indent set to last_indent
Constructed(last_indent) ==
  [lineno |-> 1, offset |-> 0, starttag_text |-> None, cdata_elem |-> None,
   state |-> [messages |-> <<>>,
              last_data |-> <<>>,
              last_data_position |-> <<0, 1>>,
              last_indent |-> last_indent,
              first_meta_line_col |-> NonePos,
              after_head_line_col |-> NonePos,
              has_charset |-> FALSE,
              endtag_text |-> None,
              x |-> ""],
   pc |-> "feed", exc |-> "", trace |-> <<>>, emitted |-> <<>>]

\* an object whose _last_indent is the one the last run left, as an
\* attribute shared by the objects would be
NewLinterSharingIndent == Constructed(_last_indent)

\* HTML5Linter.__init__ up to feed(): every attribute is set on the object
NewLinter == Constructed(0)

\* the variables become the object r
Load(r) ==
  /\ lineno' = r.lineno
  /\ offset' = r.offset
  /\ starttag_text' = r.starttag_text
  /\ cdata_elem' = r.cdata_elem
  /\ _messages' = r.state.messages
  /\ _last_data' = r.state.last_data
  /\ _last_data_position' = r.state.last_data_position
  /\ _last_indent' = r.state.last_indent
  /\ _first_meta_line_col' = r.state.first_meta_line_col
  /\ _after_head_line_col' = r.state.after_head_line_col
  /\ _has_charset' = r.state.has_charset
  /\ _endtag_text' = r.state.endtag_text
  /\ pc' = r.pc
  /\ exc' = r.exc
  /\ trace' = r.trace
  /\ emitted' = r.emitted

\* the next handler that runs is one of the other object
Switch ==
  /\ Load(input)
  /\ input' = Instance
  /\ UNCHANGED output

MaxRuns == 2

\* the run of the object has ended and HTML5Linter(html) is called again
Construct ==
  /\ pc \in {"returned", "raised"}
  /\ output < MaxRuns
  /\ Load(NewLinter)
  /\ output' = output + 1
  /\ UNCHANGED input

MaxTwoEvents == 2

TwoTexts == {<<"\n"," "," ">>}
TwoStartTags == {<<"<","d","i","v",">">>, <<"<","m","e","t","a"," ","n","a","m","e","=","x",">">>, <<"<","b","r","/",">">>, <<"<","d","i","v"," ","i","d",">">>}
TwoEndTags == {<<"<","/","P",">">>}

InitTwo ==
  /\ InitLinter
  /\ pc = "feed"
  /\ input = NewLinter
  /\ output = 0

NextTwo ==
  \/ \E raw \in TwoTexts : Text(raw, MaxTwoEvents)
  \/ \E raw \in TwoStartTags : StartTag(raw, MaxTwoEvents)
  \/ EndHalf
  \/ \E raw \in TwoEndTags : EndTag(raw, MaxTwoEvents)
  \/ Close
  \/ Messages
  \/ Switch
  \/ Construct

SpecTwo == InitTwo /\ [][NextTwo]_vars

-----------------------------------------------------------------------------
(* Independence of the runs *)

\* the tokens of a run, without their positions
Tokens(t) == [i \in 1..Len(t) |-> <<t[i].kind, t[i].raw>>]

\* C14: runs do not influence each other: two objects that have handled
\* the same tokens hold the same messages and the same state, whatever was
\* linted before on either of them and however their handlers were
\* interleaved; every object starts from the same initial state
RunsIndependent ==
  /\ (trace = <<>> /\ pc = "feed") => Instance = NewLinter
  /\ (Tokens(trace) = Tokens(input.trace) /\ pc = input.pc) =>
       Instance = input

\* two finished runs of one document with messages, on objects of which
\* one was constructed after another run
RunsIndependentWitness ==
  /\ output > 0
  /\ pc = "returned" /\ input.pc = "returned"
  /\ Tokens(trace) = Tokens(input.trace)
  /\ _messages # <<>>
  /\ _last_indent > 0

-----------------------------------------------------------------------------
(* The rules of the start tag *)

\* the messages of class cls among the messages the step appends
AppendedOf(cls) == SelectSeq(Appended, LAMBDA m : m.cls = cls)

\* the step handles a token of the kind
Handles(kind) == Handled /\ trace'[Len(trace')].kind = kind

\* C15: a start tag gets a formatting message, at its position and with its
\* name, iff it is a block, list or table tag and the candidate indentation
\* before its own indentation check is unknown; an end tag never gets one
FormattingDiagnostic ==
  [][/\ Handles("starttag") =>
          LET Stated(ev) ==
                IF ev.tag \in NEWLINE_TAGS /\ Candidate = Unknown
                  THEN <<Message("FormattingMessage", <<ev.line, ev.column>>,
                                 <<ev.tag>>, <<>>)>>
                  ELSE <<>>
          IN AppendedOf("FormattingMessage") = Stated(trace'[Len(trace')])
     /\ Handles("endtag") => AppendedOf("FormattingMessage") = <<>>]_vars

-----------------------------------------------------------------------------
(* SpecTags: runs over start tags with attributes, for the rules of the    *)
(* start tag                                                               *)

MaxTagEvents == 2

TagStartTags ==
  {<<"<","d","i","v"," ","/",">">>, <<"<","b","r"," ","/",">">>, <<"<","b","r"," ",">">>, <<"<","d","i","v","\n",">">>, <<"<","b","r","/",">">>,
   <<"<","i","n","p","u","t"," ","d","i","s","a","b","l","e","d","=","\"","\"",">">>, <<"<","i","n","p","u","t"," ","c","h","e","c","k","e","d",">">>,
   <<"<","i","n","p","u","t"," ","i","d"," ","c","h","e","c","k","e","d","=","\"","c","h","e","c","k","e","d","\"",">">>, <<"<","i","n","p","u","t"," ","c","h","e","c","k","e","d","=","\"","x","\""," ","c","h","e","c","k","e","d",">">>,
   <<"<","a"," ","h","r","e","f","=","\"","h","t","t","p",":","/","/","x","\""," ","s","r","c","=","\"","y","\"",">">>, <<"<","i","m","g"," ","s","r","c","=","\"","h","t","t","p","s",":","/","/","x","\"",">">>,
   <<"<","a"," ","h","r","e","f","=","\"","h","t","t","p",":","/","/","x","\"",">">>, <<"<","a"," ","h","r","e","f","=","\"","x","\"",">">>}
TagTexts == {<<"\n"," ">>}

NextTags ==
  \/ \E raw \in TagTexts : Text(raw, MaxTagEvents)
  \/ \E raw \in TagStartTags : StartTag(raw, MaxTagEvents)
  \/ EndHalf
  \/ Close

SpecTags == Init /\ [][NextTags]_vars

\* the offset of the ">" or "/>" that closes the start tag
ClosingAt(raw) ==
  IF endswith(raw, <<"/",">">>) THEN Len(raw) - 2 ELSE Len(raw) - 1

\* the offset at which the run of whitespace that ends before offset e starts
RunBefore(raw, e) ==
  CHOOSE s \in 0..e :
    /\ \A k \in (s + 1)..e : raw[k] \in Whitespace
    /\ s = 0 \/ raw[s] \notin Whitespace

\* C16: the whitespace right before the ">" or "/>" of a start tag gets an
\* extra-whitespace message of its own, at its first character, unless the
\* tag is a self-closed void element, whose "/" and the whitespace before
\* it the void-element check reports; a self-closed tag that is no void
\* element gets the message
WhitespaceBeforeClosing ==
  [][Handles("starttag") =>
       LET Reported(pos) ==
             \E i \in 1..Len(Appended) :
               Appended[i] = Message("ExtraWhitespaceMessage", pos, <<>>, <<>>)
           Stated(ev, s, e) ==
             s < e =>
               (Reported(get_line_column(ev.raw, ev.line, ev.column, s))
                  <=> ~(ev.selfclosed /\ ev.tag \in VOID_TAGS))
           At_(ev) ==
             Stated(ev, RunBefore(ev.raw, ClosingAt(ev.raw)),
                    ClosingAt(ev.raw))
       IN At_(trace'[Len(trace')])]_vars

\* the attribute is given an explicit value that is not empty
GivenNonEmptyValue(attrs, name) ==
  \E i \in 1..Len(attrs) :
    attrs[i][1] = name /\ attrs[i][2] # None /\ attrs[i][2] # <<>>

\* C17: an attribute of the boolean attributes gets a boolean-attribute
\* message exactly when the tag gives it an explicit value that is not
\* empty; written without a value it gets none
BooleanAttributeDiagnostic ==
  [][Handles("starttag") =>
       LET Flagged(name) ==
             \E i \in 1..Len(AppendedOf("BooleanAttributeMessage")) :
               AppendedOf("BooleanAttributeMessage")[i].strs[1] = name
           At_(attrs) ==
             \A i \in 1..Len(attrs) :
               attrs[i][1] \in BOOLEAN_ATTRIBUTES =>
                 (Flagged(attrs[i][1])
                    <=> GivenNonEmptyValue(attrs, attrs[i][1]))
       IN At_(parse_starttag(trace'[Len(trace')].raw).attrs)]_vars

\* the protocol messages C18 states for the start tag: one for each of
\* href and src whose value begins with "http:" or "https:", at the first
\* character of the value
StatedProtocolMessages(ev, attrs) ==
  {Message("ProtocolMessage",
           get_value_line_column(ev.raw, ev.line, ev.column, name),
           <<ProtocolOf(Get(attrs, name, <<>>))>>, <<>>) :
     name \in {n \in {<<"h","r","e","f">>, <<"s","r","c">>} :
                 /\ Has(attrs, n)
                 /\ Get(attrs, n, <<>>) # None
                 /\ ProtocolOf(Get(attrs, n, <<>>)) # <<>>}}

\* C18: a start tag gets a protocol message for each href and each src
\* attribute whose value begins with "http:" or "https:", at the first
\* character of that value, for href also when the tag has a src attribute;
\* a value without the prefix gets none
ProtocolDiagnostic ==
  [][Handles("starttag") =>
       LET At_(ev) ==
             /\ {AppendedOf("ProtocolMessage")[i] :
                   i \in 1..Len(AppendedOf("ProtocolMessage"))}
                  = StatedProtocolMessages(ev, parse_starttag(ev.raw).attrs)
             /\ Len(AppendedOf("ProtocolMessage"))
                  = Cardinality(StatedProtocolMessages(
                                  ev, parse_starttag(ev.raw).attrs))
       IN At_(trace'[Len(trace')])]_vars
-----------------------------------------------------------------------------
(* Declarations and text *)

MaxTextEvents == 3

TextDecls == {<<"<","!","D","O","C","T","Y","P","E"," ","h","t","m","l",">">>, <<"<","!","D","O","C","T","Y","P","E"," ","h","t","m","l"," ","P","U","B","L","I","C",">">>,
              <<"<","!","D","O","C","T","Y","P","E"," "," ","h","t","m","l",">">>, <<"<","!","D","O","C","T","Y","P","E"," ","h","t","m","l"," ",">">>,
              <<"<","!","d","o","c","t","y","p","e"," ","h","t","m","l",">">>, <<"<","!","D","O","C","T","Y","P","E"," ","h","t","m","l","\n",">">>}
TextTexts == {<<"a"," ","\n">>, <<"\t"," ","\n","b","\t">>, <<" ","\t">>, <<"\t","\n","\t","\t","x"," ","\r","\n"," ">>,
              <<"a","\r"," ","\n">>, <<"\n","\f"," ","\n">>}

NextText ==
  \/ \E raw \in TextTexts : Text(raw, MaxTextEvents)
  \/ \E raw \in TextDecls : Decl(raw, MaxTextEvents)
  \/ Close

SpecText == Init /\ [][NextText]_vars

\* C19: a declaration gets one document type message, at its position and
\* with its text between "<!" and ">", unless its text without the
\* whitespace around it is "DOCTYPE html"; it gets no message then
DeclarationDiagnostic ==
  [][Handles("decl") =>
       LET Stated(ev) ==
             IF strip(Slice(ev.raw, 2, Len(ev.raw) - 1)) = <<"D","O","C","T","Y","P","E"," ","h","t","m","l">>
               THEN <<>>
               ELSE <<Message("DocumentTypeMessage", <<ev.line, ev.column>>,
                              <<ev.raw>>, <<>>)>>
       IN Appended = Stated(trace'[Len(trace')])]_vars

\* a declaration with a space before its ">" was handled without a message,
\* after one with two spaces inside that got a message on a later line
DeclarationDiagnosticWitness ==
  /\ Len(trace) = 3
  /\ trace[1].raw = <<"<","!","D","O","C","T","Y","P","E"," "," ","h","t","m","l",">">>
  /\ trace[3].raw = <<"<","!","D","O","C","T","Y","P","E"," ","h","t","m","l"," ",">">>
  /\ trace[3].line > 1
  /\ Len(emitted) = 1
  /\ emitted[1].cls = "DocumentTypeMessage"
  /\ emitted[1].strs = <<<<"<","!","D","O","C","T","Y","P","E"," "," ","h","t","m","l",">">>>>

\* the 1-based indexes where a maximal run of characters of S starts in data
RunStarts(data, S) ==
  {i \in 1..Len(data) : data[i] \in S /\ (i = 1 \/ data[i - 1] \notin S)}

\* the index of the last character of the run of S that starts at i
RunEnd(data, S, i) ==
  CHOOSE j \in i..Len(data) :
    /\ \A k \in i..j : data[k] \in S
    /\ j = Len(data) \/ data[j + 1] \notin S

\* the messages C20 states for the text of the data event ev, one for each
\* run, at the run's first character
StatedTrailing(ev, breaks) ==
  {Message("TrailingWhitespaceMessage",
           StatedLineColumn(SubSeq(ev.raw, 1, i - 1), ev.line, ev.column,
                            i - 1, breaks),
           <<SubSeq(ev.raw, i, RunEnd(ev.raw, {SP, TAB}, i))>>, <<>>) :
     i \in {r \in RunStarts(ev.raw, {SP, TAB}) :
              /\ RunEnd(ev.raw, {SP, TAB}, r) < Len(ev.raw)
              /\ ev.raw[RunEnd(ev.raw, {SP, TAB}, r) + 1] \in breaks}}

StatedTabs(ev, breaks) ==
  {Message("TabMessage",
           StatedLineColumn(SubSeq(ev.raw, 1, i - 1), ev.line, ev.column,
                            i - 1, breaks),
           <<>>, <<>>) : i \in RunStarts(ev.raw, {TAB})}

\* the messages of the sequence
Range(s) == {s[i] : i \in 1..Len(s)}

\* C20: a text gets one trailing whitespace message for each maximal run of
\* spaces and tabs that a line break follows, at the first character of the
\* run, and none for a run at its end; it gets one tab message for each
\* maximal run of tabs, at the first character of the run, whether the tabs
\* are part of a reported run or not
TextDiagnostic ==
  [][Handles("data") =>
       LET Stated(ev) ==
             \E breaks \in LineBreakReadings :
               /\ Range(AppendedOf("TrailingWhitespaceMessage"))
                    = StatedTrailing(ev, breaks)
               /\ Len(AppendedOf("TrailingWhitespaceMessage"))
                    = Cardinality(StatedTrailing(ev, breaks))
               /\ Range(AppendedOf("TabMessage")) = StatedTabs(ev, breaks)
               /\ Len(AppendedOf("TabMessage"))
                    = Cardinality(StatedTabs(ev, breaks))
       IN Stated(trace'[Len(trace')])]_vars
-----------------------------------------------------------------------------
(* SpecLookup: single calls of the two attribute position lookups on tags  *)
(* put together from a part before the attribute, the attribute's name,    *)
(* its value part and a part after it                                      *)

MaxLookupLine == 2

\* the parts before the attribute id: none of them has an attribute id
LookupBefore == {<<"<","a"," ">>, <<"<","a","\n"," ">>, <<"<","a"," ","h","r","e","f","=","\""," ","i","d"," ","\"","\n"," ">>,
                 <<"<","a"," ","b","=","'","i","d","=","x","'"," ">>, <<"<","a","\n","\f">>}
LookupNames == {<<"i","d">>, <<"I","D">>}
\* the part between the name and the value, and the quote of the value
LookupForms == {[eq |-> <<>>, quote |-> <<>>, value |-> <<>>],
                [eq |-> <<"=">>, quote |-> <<"\"">>, value |-> <<"v">>],
                [eq |-> <<"=">>, quote |-> <<"'">>, value |-> <<"v">>],
                [eq |-> <<"=">>, quote |-> <<>>, value |-> <<"v">>],
                [eq |-> <<"="," ">>, quote |-> <<>>, value |-> <<"v">>],
                [eq |-> <<" ","=","\n">>, quote |-> <<"\"">>, value |-> <<>>]}
LookupAfter == {<<">">>, <<" ","i","d","=","'","w","'",">">>}

\* the tag of a call
TagOf(call) ==
  call.before \o call.name \o call.form.eq \o call.form.quote
    \o call.form.value \o call.form.quote \o call.after

LookupCalls ==
  {[fn |-> f, before |-> b, name |-> n, form |-> v, after |-> a,
    line |-> l, column |-> 1 + 7 * (l - 1)] :
     f \in {"get_attribute_line_column", "get_value_line_column"},
     b \in LookupBefore, n \in LookupNames, v \in LookupForms,
     a \in LookupAfter, l \in 1..MaxLookupLine}

InitLookup ==
  /\ InitLinter
  /\ pc = "call"
  /\ input \in LookupCalls
  /\ output = <<>>

CallGetAttributeLineColumn ==
  /\ pc = "call"
  /\ input.fn = "get_attribute_line_column"
  /\ output' = get_attribute_line_column(TagOf(input), input.line,
                                         input.column, <<"i","d">>)
  /\ pc' = "done"
  /\ UNCHANGED <<lineno, offset, starttag_text, cdata_elem, linter_vars,
                 exc, trace, emitted, input>>

CallGetValueLineColumn ==
  /\ pc = "call"
  /\ input.fn = "get_value_line_column"
  /\ output' = get_value_line_column(TagOf(input), input.line, input.column,
                                     <<"i","d">>)
  /\ pc' = "done"
  /\ UNCHANGED <<lineno, offset, starttag_text, cdata_elem, linter_vars,
                 exc, trace, emitted, input>>

NextLookup ==
  \/ CallGetAttributeLineColumn
  \/ CallGetValueLineColumn

SpecLookup == InitLookup /\ [][NextLookup]_vars

\* the 0-based offset in the tag that C21 states for the call: the first
\* character of the name, and the character after the opening quote, the
\* first character of the unquoted value or the character after the name
StatedOffset(call) ==
  IF call.fn = "get_attribute_line_column" THEN Len(call.before)
  ELSE IF call.form.eq = <<>> THEN Len(call.before) + Len(call.name)
  ELSE Len(call.before) + Len(call.name) + Len(call.form.eq)
         + Len(call.form.quote)

\* C21: get_value_line_column returns the position of the character after
\* the opening quote of a quoted value, of the first character of an
\* unquoted value and of the character after the name of an attribute
\* without value; get_attribute_line_column returns the position of the
\* first character of the name; both for the first attribute of that name
\* and never for the same word inside the quoted value of another attribute
LookupAsStated ==
  pc = "done" =>
    \E breaks \in LineBreakReadings :
      output = StatedLineColumn(Slice(TagOf(input), 0, StatedOffset(input)),
                                input.line, input.column,
                                StatedOffset(input), breaks)
-----------------------------------------------------------------------------
(* SpecRender: the rendered diagnostics of small documents with inline CSS *)

MaxRenderEvents == 3

RenderStartTags == {<<"<","s","t","y","l","e",">">>, <<"<","p"," ","s","t","y","l","e","=","\"","x","\"",">">>, <<"<","b","r","/",">">>,
                    <<"<","s","c","r","i","p","t",">">>}
RenderEndTags == {<<"<","/","s","t","y","l","e",">">>}
RenderTexts == {<<"x"," ","\n">>}

NextRender ==
  \/ \E raw \in RenderTexts : Text(raw, MaxRenderEvents)
  \/ \E raw \in RenderStartTags : StartTag(raw, MaxRenderEvents)
  \/ EndHalf
  \/ \E raw \in RenderEndTags : EndTag(raw, MaxRenderEvents)
  \/ Close
  \/ \E py \in PythonVersions : Lint([kind |-> "None", classes |-> {}], py)

SpecRender == Init /\ [][NextRender]_vars

\* the description text of the category of the message: for a style tag
\* 'CSS should be defined in its own file'
PlainDescription(m, py) ==
  IF m.cls = "ConcernsSeparationMessage" /\ m.strs[1] = <<"s","t","y","l","e">>
    THEN <<"C","S","S"," ","s","h","o","u","l","d"," ","b","e"," ","d","e","f","i","n","e","d"," ","i","n"," ","i","t","s"," ","o","w","n"," ","f","i","l","e">>
    ELSE description(m, py)

\* C22: every diagnostic is rendered as
\* '<line>:<column>: <Severity>: <Category>: <Description>: <Message>.' with
\* the description text of its category, also the one of a style tag, whose
\* description is 'CSS should be defined in its own file'
RenderedAsStated ==
  pc = "linted" =>
    output = join(<<LF>>,
                  [i \in 1..Len(_messages) |->
                     Concat(<<Decimal(_messages[i].line), <<":">>,
                              Decimal(_messages[i].column), <<":"," ">>,
                              level(_messages[i].cls), <<":"," ">>,
                              category(_messages[i].cls), <<":"," ">>,
                              PlainDescription(_messages[i], input.python),
                              <<":"," ">>, message(_messages[i], input.python),
                              <<".">>>>)])
-----------------------------------------------------------------------------
(* The first tag of a document *)

\* the step handles the first token of the document, a tag
FirstTagStep == trace = <<>> /\ TagStep

\* C23 as stated: before any text no last text is stored, so the candidate
\* indentation of a tag that starts the document is unknown; the tag is not
\* checked (the stored text is left as it is) and _last_indent stays 0
FirstTagUnchecked ==
  [][FirstTagStep =>
       /\ Candidate = Unknown
       /\ _last_data' = _last_data
       /\ _last_indent' = 0]_vars

\* C23: before any text the stored last text is the empty text at column 1,
\* so the candidate indentation of a tag that starts the document is 0, a
\* known indentation; the tag gets no indentation and no formatting message
\* and _last_indent stays 0
FirstTagAtIndentationZero ==
  [][FirstTagStep =>
       /\ _last_data = <<>>
       /\ Candidate = <<0>>
       /\ AppendedOf("IndentationMessage") = <<>>
       /\ AppendedOf("FormattingMessage") = <<>>
       /\ _last_indent' = 0]_vars

\* the block tag div has started the document, has been checked (the stored
\* text is dropped) and has got no message
FirstTagAtIndentationZeroWitness ==
  /\ Len(trace) = 1
  /\ trace[1].kind = "starttag"
  /\ trace[1].tag = <<"d","i","v">>
  /\ exc = ""
  /\ _last_data = None
  /\ _last_indent = 0
  /\ emitted = <<>>
-----------------------------------------------------------------------------
(* SpecEq: Message.__eq__ on pairs of message values *)

MaxEqColumn == 2

\* the attribute is not in the __dict__ of the object
Absent == <<"<absent>">>

\* the constructor of the class sets self.message (Message.__init__ and
\* VoidZeroMessage, which has no constructor of its own, do not;
\* InvalidAttributeMessage does for the three attributes it knows)
SetsMessage(m) ==
  /\ m.cls \notin {"Message", "VoidZeroMessage"}
  /\ m.cls = "InvalidAttributeMessage"
       => m.strs[1] \in {<<"c","h","a","r","s","e","t">>, <<"l","a","n","g","u","a","g","e">>, <<"n","a","m","e">>}
  /\ m.cls = "ConcernsSeparationMessage"
       => ConcernsBranch(m.strs[1], m.strs[2]) # "none"

\* the constructor of the class sets self.description
SetsDescription(m) ==
  /\ m.cls \in {"TypeAttributeMessage", "ConcernsSeparationMessage",
                 "NameMessage", "CapitalizationMessage",
                 "InvalidAttributeMessage"}
  /\ SetsMessage(m)

\* the attributes of the object, the ones its constructor sets: the class
\* attributes level, category and, for most classes, description are not
\* among them (a description is given as '%s' formats it)
__dict__(m, py) ==
  [line |-> m.line, column |-> m.column,
   message |-> IF SetsMessage(m) THEN message(m, py) ELSE Absent,
   description |-> IF SetsDescription(m) THEN description(m, py) ELSE Absent,
   url |-> IF m.cls = "InvalidAttributeMessage" /\ SetsMessage(m)
             THEN m.strs[1] ELSE Absent]

\* Message.__eq__: self.__dict__ == other.__dict__
__eq__(self, other, py) == __dict__(self, py) = __dict__(other, py)

\* the message values compared, at columns 1..MaxEqColumn of line 1
EqMessages ==
  UNION {{Message("Message", <<1, c>>, <<>>, <<>>),
          Message("VoidZeroMessage", <<1, c>>, <<>>, <<>>),
          Message("InvalidHandlerMessage", <<1, c>>, <<<<"o","n","c","l","i","c","k">>>>, <<>>),
          Message("DocumentTypeMessage", <<1, c>>, <<<<"<","!","D","O","C","T","Y","P","E"," ","h","t","m","l",">">>>>,
                  <<>>),
          Message("EntityReferenceMessage", <<1, c>>,
                  <<<<"<","!","D","O","C","T","Y","P","E"," ","h","t","m","l",">">>>>, <<>>),
          Message("EntityReferenceMessage", <<1, c>>, <<<<"&","a","m","p",";">>>>, <<>>),
          Message("TabMessage", <<1, c>>, <<>>, <<>>),
          Message("ExtraWhitespaceMessage", <<1, c>>, <<>>, <<>>),
          Message("OptionalTagMessage", <<1, c>>, <<<<"p">>>>, <<1>>),
          Message("ProtocolMessage", <<1, c>>, <<<<"h","t","t","p",":">>>>, <<>>),
          Message("NameMessage", <<1, c>>, <<<<"i","d">>, <<"A">>>>, <<>>),
          Message("NameMessage", <<1, c>>, <<<<"c","l","a","s","s">>, <<"A">>>>, <<>>)} :
         c \in 1..MaxEqColumn}

InitEq ==
  /\ InitLinter
  /\ pc = "call"
  /\ input \in {[fn |-> "__eq__", self |-> a, other |-> b, python |-> py] :
                  a \in EqMessages, b \in EqMessages, py \in PythonVersions}
  /\ output = <<>>

CallEq ==
  /\ pc = "call"
  /\ input.fn = "__eq__"
  /\ output' = __eq__(input.self, input.other, input.python)
  /\ pc' = "done"
  /\ UNCHANGED <<lineno, offset, starttag_text, cdata_elem, linter_vars,
                 exc, trace, emitted, input>>

NextEq == CallEq

SpecEq == InitEq /\ [][NextEq]_vars

\* the two messages agree on category, severity, position and rendered text
AgreeOnAllFields(a, b, py) ==
  /\ category(a.cls) = category(b.cls)
  /\ level(a.cls) = level(b.cls)
  /\ a.line = b.line /\ a.column = b.column
  /\ __unicode__(a, py) = __unicode__(b, py)

\* C24: two messages are equal iff they agree on category, severity,
\* position and rendered text; two messages of different categories or
\* severities at the same position are not equal
EqualIffAllFieldsAgree ==
  (pc = "done" /\ input.fn = "__eq__") =>
    (output <=> AgreeOnAllFields(input.self, input.other, input.python))
-----------------------------------------------------------------------------
(* SpecEven: runs over tags at odd and even indentations *)

MaxEvenEvents == 5

EvenTexts == {<<"\n"," ">>, <<"\n"," "," ">>, <<"\n"," "," "," ">>, <<"\n","\t"," "," "," ">>}
EvenStartTags == {<<"<","d","i","v",">">>, <<"<","b","r","/",">">>, <<"<","d","i","v","/",">">>, <<"<","d","i","v"," ","i","d",">">>}
EvenEndTags == {<<"<","/","d","i","v",">">>}

NextEven ==
  \/ \E raw \in EvenTexts : Text(raw, MaxEvenEvents)
  \/ \E raw \in EvenStartTags : StartTag(raw, MaxEvenEvents)
  \/ EndHalf
  \/ \E raw \in EvenEndTags : EndTag(raw, MaxEvenEvents)
  \/ Close

SpecEven == Init /\ [][NextEven]_vars

\* C25: in every state of a run _last_indent is an even number, at least 0,
\* and the valid indentations computed from it are the even numbers of
\* 0.._last_indent + 2
LastIndentEven ==
  /\ _last_indent >= 0
  /\ _last_indent % 2 = 0
  /\ ValidIndents(_last_indent) = EvenUpTo(_last_indent + 2)

\* a tag indented by one space after _last_indent 2 got an indentation
\* message, and _last_indent was rounded down to 0
LastIndentEvenWitness ==
  /\ trace # <<>>
  /\ LastEvent.kind \in {"starttag", "endtag"}
  /\ emitted # <<>>
  /\ emitted[Len(emitted)].cls = "IndentationMessage"
  /\ emitted[Len(emitted)].nums = <<1, 0, 4>>
  /\ _last_indent = 0

\* the step handles the end tag half of a self-closed tag
EndHalfStep == Handles("endtag") /\ trace'[Len(trace')].selfclosed

\* C27: the end tag half of a self-closed tag finds the candidate
\* indentation unknown: it gets no indentation message and leaves
\* _last_indent as it is, whatever the indentation was at the start tag half
SelfClosedCheckedOnce ==
  [][EndHalfStep =>
       /\ Candidate = Unknown
       /\ AppendedOf("IndentationMessage") = <<>>
       /\ _last_indent' = _last_indent]_vars

\* the text at the start of the document indents a self-closed tag by one
\* column: its start tag half got the only indentation message and set
\* _last_indent to 2, and its end tag half has been handled
SelfClosedCheckedOnceWitness ==
  /\ Len(trace) = 3
  /\ trace[1].raw = <<"\n"," ">>
  /\ trace[2].kind = "starttag"
  /\ trace[3].kind = "endtag" /\ trace[3].selfclosed
  /\ Len(SelectSeq(emitted, LAMBDA m : m.cls = "IndentationMessage")) = 1
  /\ _last_indent = 2
  /\ exc = ""
-----------------------------------------------------------------------------
(* What changes _last_indent *)

MaxFrameEvents == 4

FrameTexts == {<<"\n"," "," ">>, <<"\n"," ">>}
FrameStartTags == {<<"<","d","i","v",">">>, <<"<","b","r","/",">">>, <<"<","d","i","v"," ","i","d",">">>}
FrameEndTags == {<<"<","/","d","i","v",">">>}
FrameEntityRefs == {<<"&","a","m","p",";">>}
FrameCharRefs == {<<"&","#","3","2",";">>}
FrameDecls == {<<"<","!","D","O","C","T","Y","P","E"," ","h","t","m","l",">">>}

NextFrame ==
  \/ \E raw \in FrameTexts : Text(raw, MaxFrameEvents)
  \/ \E raw \in FrameDecls : Decl(raw, MaxFrameEvents)
  \/ \E raw \in FrameEntityRefs : EntityRef(raw, MaxFrameEvents)
  \/ \E raw \in FrameCharRefs : CharRef(raw, MaxFrameEvents)
  \/ \E raw \in FrameStartTags : StartTag(raw, MaxFrameEvents)
  \/ EndHalf
  \/ \E raw \in FrameEndTags : EndTag(raw, MaxFrameEvents)
  \/ Close

SpecFrame == Init /\ [][NextFrame]_vars

\* C26: _last_indent changes only when a start tag or an end tag is handled
\* whose candidate indentation is known; a tag with unknown candidate
\* indentation leaves _last_indent and the stored text as they are and gets
\* no indentation message; a text, an entity reference, a character
\* reference and a declaration never change _last_indent
LastIndentFrame ==
  [][/\ _last_indent' # _last_indent => (TagStep /\ Candidate # Unknown)
     /\ (TagStep /\ Candidate = Unknown) =>
          /\ _last_indent' = _last_indent
          /\ _last_data' = _last_data
          /\ _last_data_position' = _last_data_position
          /\ AppendedOf("IndentationMessage") = <<>>
     /\ (Handled /\ trace'[Len(trace')].kind
                      \in {"data", "entityref", "charref", "decl"}) =>
          _last_indent' = _last_indent]_vars

\* a tag at indentation 2 set _last_indent to 2; the reference and the tag
\* after it, whose candidate indentation was unknown, left it at 2
LastIndentFrameWitness ==
  /\ Len(trace) >= 4
  /\ trace[Len(trace) - 3].kind = "data"
  /\ trace[Len(trace) - 2].kind = "starttag"
  /\ trace[Len(trace) - 1].kind \in {"entityref", "charref"}
  /\ trace[Len(trace)].kind \in {"starttag", "endtag"}
  /\ exc = ""
  /\ _last_indent = 2

\* C30: a tag whose candidate indentation is known comes right after the
\* text the indentation is computed from, or starts the document: no
\* reference, declaration or other token lies between that text and the tag
KnownOnlyRightAfterText ==
  [][(TagStep /\ Candidate # Unknown) =>
       \/ trace = <<>>
       \/ /\ LastEvent.kind = "data"
          /\ LastEvent.raw = _last_data]_vars
-----------------------------------------------------------------------------
(* SpecEndText: closing tags followed by self-closed tags *)

MaxEndTextEvents == 3

EndTextStartTags == {<<"<","b","r","/",">">>, <<"<","B","R"," ","/",">">>, <<"<","p",">">>}
EndTextEndTags == {<<"<","/","P",">">>, <<"<","/","p"," ",">">>, <<"<","/","p"," ","i","d",">">>, <<"<","/","b","r",">">>}
EndTextTexts == {<<"x">>}

NextEndText ==
  \/ \E raw \in EndTextTexts : Text(raw, MaxEndTextEvents)
  \/ \E raw \in EndTextStartTags : StartTag(raw, MaxEndTextEvents)
  \/ EndHalf
  \/ \E raw \in EndTextEndTags : EndTag(raw, MaxEndTextEvents)
  \/ Close

SpecEndText == Init /\ [][NextEndText]_vars

\* the messages _check_endtag_capitalization and _check_whitespaces append
FromEndtagText ==
  SelectSeq(Appended,
            LAMBDA m : m.cls \in {"CapitalizationMessage",
                                  "ExtraWhitespaceMessage"})

\* C28: when handle_endtag runs, the end tag text is None or the text of
\* the closing tag it is called for; for the end tag half of a self-closed
\* tag it is None, the start tag half has reset it, and the half gets no
\* capitalization and no whitespace message
EndtagTextCurrent ==
  [][Handles("endtag") =>
       LET At_(ev) ==
             /\ _endtag_text' \in {None, ev.raw}
             /\ ev.selfclosed =>
                  /\ _endtag_text = None
                  /\ _endtag_text' = None
                  /\ FromEndtagText = <<>>
       IN At_(trace'[Len(trace')])]_vars

\* the closing tag </P> got its capitalization message, and the end tag
\* half of the self-closed tag after it got only the void element message
EndtagTextCurrentWitness ==
  /\ Len(trace) = 3
  /\ trace[1].raw = <<"<","/","P",">">>
  /\ trace[2].kind = "starttag"
  /\ trace[3].kind = "endtag" /\ trace[3].selfclosed
  /\ exc = ""
  /\ _endtag_text = None
  /\ Len(SelectSeq(emitted, LAMBDA m : m.cls = "CapitalizationMessage")) = 1
  /\ emitted[Len(emitted)].cls = "VoidElementMessage"
-----------------------------------------------------------------------------
(* SpecDup: start tags that repeat an attribute *)

MaxDupEvents == 2

DupStartTags == {<<"<","p"," ","i","d","=","\"","a","\""," ","i","d","=","\"","B","\"",">">>, <<"<","p"," ","i","d","=","\"","B","\""," ","i","d","=","\"","a","\"",">">>,
                 <<"<","p"," ","i","d","=","\"","B","\"",">">>, <<"<","p","\n"," ","c","l","a","s","s","=","A",">">>,
                 <<"<","p"," ","c","l","a","s","s","=","\"","a","\""," ","c","l","a","s","s","=","'","B","_","c","'",">">>,
                 <<"<","a"," ","h","r","e","f","=","\"","x","\""," ","h","r","e","f","=","\"","h","t","t","p",":","/","/","y","\"",">">>,
                 <<"<","a"," ","h","r","e","f","=","\"","h","t","t","p","s",":","/","/","x","\"",">">>}
DupTexts == {<<"\n"," ">>}

NextDup ==
  \/ \E raw \in DupTexts : Text(raw, MaxDupEvents)
  \/ \E raw \in DupStartTags : StartTag(raw, MaxDupEvents)
  \/ Close

SpecDup == Init /\ [][NextDup]_vars

\* the 0-based offsets of the first and after the last character of the
\* value of the attribute occurrence m of the tag text s, without its quotes
ValueSpan(s, m) ==
  IF ~m.has2 THEN <<m.e1, m.e1>>
  ELSE IF At(s, m.s3) \in {DQ, SQ} THEN <<m.s3 + 1, m.e3 - 1>>
  ELSE <<m.s3, m.e3>>

\* the attribute and the text of the value that the message quotes: the
\* whole value for a name message, its beginning for a protocol message
Quotes(msg, attribute, value) ==
  IF msg.cls = "NameMessage"
    THEN msg.strs[1] = attribute /\ msg.strs[2] = value
    ELSE attribute \in {<<"h","r","e","f">>, <<"s","r","c">>} /\ startswith(value, msg.strs[1])

\* C29: a message about the value of an attribute of a start tag (the name
\* of an id or a class, the protocol of a url) is at the first character of
\* the value of an occurrence of the attribute that has the value the
\* message quotes, also when the tag has the attribute twice
ValueDiagnosticAtItsOccurrence ==
  [][Handles("starttag") =>
       LET At_(ev, occurrences) ==
             \A i \in 1..Len(Appended) :
               Appended[i].cls \in {"NameMessage", "ProtocolMessage"} =>
                 \E k \in 1..Len(occurrences) :
                   /\ Quotes(Appended[i],
                             lower(group1(ev.raw, occurrences[k])),
                             Slice(ev.raw,
                                   ValueSpan(ev.raw, occurrences[k])[1],
                                   ValueSpan(ev.raw, occurrences[k])[2]))
                   /\ <<Appended[i].line, Appended[i].column>>
                        = Advance(ev.line, ev.column,
                                  Slice(ev.raw, 0,
                                        ValueSpan(ev.raw, occurrences[k])[1]))
       IN At_(trace'[Len(trace')],
              attrfind_finditer(trace'[Len(trace')].raw, 0))]_vars

====
